---- MODULE Spec2Model ----
(***************************************************************************)
(* Background Jobs: the storage contract (jobs-core/src/storage.rs), its   *)
(* two backends (memory_storage and jobs-sled), the job record             *)
(* (jobs-core/src/job_info.rs) and the actix dispatch server, workers and  *)
(* pinger (jobs-actix/src).                                                *)
(*                                                                         *)
(* Time is the wall clock in whole seconds.  Option<T> is a sequence of    *)
(* length 0 (None) or 1 (Some).  JobInfo.updated_at and JobInfo.args are   *)
(* written but never read by the code modelled here; args is kept as an    *)
(* opaque value, updated_at is left out.                                   *)
(***************************************************************************)
EXTENDS Integers, Sequences, FiniteSets, TLC

\* ------------------------------------------------------------------ bounds
MaxJobs == 2
MaxTime == 3
MaxPings == 1
NThreads == 2
MaxWorkers == 2
\* workers configured plus jobs submitted to the server
MaxLoad == 3
\* storage calls that fail
MaxErrors == 2
\* largest worker count given to set_processor_count
MaxCount == 6
\* bits of a usize counter of Stats
UsizeBits == 4
\* runs of one job by a worker that has no processor for it
MaxRuns == 3
\* the calendar of the wall clock, in hours: hours of a day, days of a month,
\* months of a year, and the years the clock covers
HoursPerDay == 2
DaysPerMonth == 2
MonthsPerYear == 2
MaxYears == 2
\* increments of one JobStat
MaxIncrements == 3

\* ---------------------------------------------------------------- constants
RunnerOffset == 1000
DefaultWorkers == 4

None == <<>>
Some(v) == <<v>>
IsSome(o) == o # <<>>
Unwrap(o) == o[1]

Ids == 0 .. (MaxJobs - 1)
Queues == {"a", "b"}
Runners == RunnerOffset .. (RunnerOffset + MaxWorkers - 1)
Times == 0 .. MaxTime
Backends == {"memory", "sled"}

RECURSIVE Pow(_, _)
Pow(base, exp) == IF exp = 0 THEN 1 ELSE base * Pow(base, exp - 1)

\* ------------------------------------------------- jobs-core/src/lib.rs
Infinite == <<"Infinite">>
Count(n) == <<"Count", n>>
Linear(secs) == <<"Linear", secs>>
Exponential(base) == <<"Exponential", base>>

should_requeue(stop) == stop = "Requeue"

\* faulty variant: one attempt fewer (retry_count < n)
compare_strict(max_retries, retry_count) ==
    IF max_retries = Infinite
    THEN "Requeue"
    ELSE IF retry_count < max_retries[2] THEN "Requeue" ELSE "LimitReached"

compare(max_retries, retry_count) ==
    IF max_retries = Infinite
    THEN "Requeue"
    ELSE IF retry_count <= max_retries[2] THEN "Requeue" ELSE "LimitReached"

\* --------------------------------------------- jobs-core/src/job_info.rs
NewJobInfo(processor, queue, args, max_retries, backoff_strategy, next_queue) ==
    [processor |-> processor, queue |-> queue, args |-> args,
     max_retries |-> max_retries, backoff_strategy |-> backoff_strategy,
     next_queue |-> next_queue]

new_is_ready(info) == info.next_queue = None

\* faulty variant: the schedule of the job is dropped
with_id_unscheduled(info, id) ==
    [id |-> id, processor |-> info.processor, queue |-> info.queue,
     status |-> "Pending", args |-> info.args, retry_count |-> 0,
     max_retries |-> info.max_retries, next_queue |-> None,
     backoff_strategy |-> info.backoff_strategy]

with_id(info, id) ==
    [id |-> id, processor |-> info.processor, queue |-> info.queue,
     status |-> "Pending", args |-> info.args, retry_count |-> 0,
     max_retries |-> info.max_retries, next_queue |-> info.next_queue,
     backoff_strategy |-> info.backoff_strategy]

\* faulty variant: ready already at now = next_queue
is_ready_at(job, now) ==
    IF IsSome(job.next_queue) THEN now >= Unwrap(job.next_queue) ELSE TRUE

is_ready(job, now) ==
    IF IsSome(job.next_queue) THEN now > Unwrap(job.next_queue) ELSE TRUE

is_pending(job) == job.status = "Pending"

is_in_queue(job, queue) == job.queue = queue

\* faulty variant: running a job forgets its retries
run_reset(job) == [job EXCEPT !.status = "Running", !.retry_count = 0]

run(job) == [job EXCEPT !.status = "Running"]

pending(job) == [job EXCEPT !.status = "Pending"]

increment(job) == [job EXCEPT !.retry_count = @ + 1]

\* faulty variant: the exponent is the retry count before the increment
next_queue_before_increment(job, now) ==
    [job EXCEPT !.next_queue =
        IF job.backoff_strategy[1] = "Linear"
        THEN Some(now + job.backoff_strategy[2])
        ELSE Some(now + Pow(job.backoff_strategy[2], job.retry_count - 1))]

next_queue(job, now) ==
    [job EXCEPT !.next_queue =
        IF job.backoff_strategy[1] = "Linear"
        THEN Some(now + job.backoff_strategy[2])
        ELSE Some(now + Pow(job.backoff_strategy[2], job.retry_count))]

\* needs_retry mutates the job and returns a flag: both are returned here.
needs_retry(job, now) ==
    LET inc == increment(job)
        should_retry == should_requeue(compare(inc.max_retries, inc.retry_count))
    IN  [retry |-> should_retry,
         job |-> IF should_retry THEN next_queue(pending(inc), now) ELSE inc]

\* ------------------------------------------------ jobs-core/src/stats.rs
\* dead and complete carry JobStat.all_time.
StatsDefault == [pending |-> 0, running |-> 0, dead |-> 0, complete |-> 0]

UsizeMax == Pow(2, UsizeBits) - 1

\* `+= 1` on a usize: with overflow checks off the sum wraps; with overflow
\* checks on the addition of usize::MAX panics and there is no result
usize_inc(x) == (x + 1) % (UsizeMax + 1)

stats_new_job(s) == [s EXCEPT !.pending = usize_inc(@)]

stats_run_job(s) ==
    [s EXCEPT !.pending = IF @ > 0 THEN @ - 1 ELSE @, !.running = usize_inc(@)]

stats_retry_job(s) ==
    [s EXCEPT !.pending = usize_inc(@), !.running = IF @ > 0 THEN @ - 1 ELSE @]

\* faulty variant: the decrement of running is not guarded
stats_fail_job_unguarded(s) ==
    [s EXCEPT !.running = (@ + UsizeMax) % (UsizeMax + 1), !.dead = usize_inc(@)]

stats_fail_job(s) ==
    [s EXCEPT !.running = IF @ > 0 THEN @ - 1 ELSE @, !.dead = usize_inc(@)]

\* faulty variant: the completed job stays counted as running
stats_complete_job_still_running(s) == [s EXCEPT !.complete = usize_inc(@)]

stats_complete_job(s) ==
    [s EXCEPT !.running = IF @ > 0 THEN @ - 1 ELSE @, !.complete = usize_inc(@)]

ApplyStats(f, s) ==
    CASE f = "new_job" -> stats_new_job(s)
      [] f = "run_job" -> stats_run_job(s)
      [] f = "retry_job" -> stats_retry_job(s)
      [] f = "fail_job" -> stats_fail_job(s)
      [] f = "complete_job" -> stats_complete_job(s)

\* JobStat.  The wall clock is a number of hours; chrono's hour(), day() and
\* month() give the hour of the day, the day of the month and the month of
\* the year.
WallClock == 0 .. (HoursPerDay * DaysPerMonth * MonthsPerYear * MaxYears - 1)

hour(t) == t % HoursPerDay
day(t) == ((t \div HoursPerDay) % DaysPerMonth) + 1
month(t) == ((t \div (HoursPerDay * DaysPerMonth)) % MonthsPerYear) + 1

JobStat_default(t) ==
    [this_hour |-> 0, today |-> 0, this_month |-> 0, all_time |-> 0, updated_at |-> t]

next_hour(s) == [s EXCEPT !.this_hour = 0]
next_day(s) == [next_hour(s) EXCEPT !.today = 0]
next_month(s) == [next_day(s) EXCEPT !.this_month = 0]

\* tick at the wall-clock time t
JobStat_tick(s, t) ==
    LET r == IF month(t) # month(s.updated_at) THEN next_month(s)
             ELSE IF day(t) # day(s.updated_at) THEN next_day(s)
             ELSE IF hour(t) # hour(s.updated_at) THEN next_hour(s)
             ELSE s
    IN  [r EXCEPT !.updated_at = t]

JobStat_increment(s, t) ==
    [JobStat_tick(s, t) EXCEPT !.this_hour = usize_inc(@), !.today = usize_inc(@),
                               !.this_month = usize_inc(@), !.all_time = usize_inc(@)]

\* ------------------------------------------ jobs-core/src/processor_map.rs
\* A registered handler is the closure over a Processor: the args its Job
\* type decodes from, and the args on which the decoded job runs to Ok.
ProcessorNames == {"P", "Q"}
JobArgs == {"args", "other"}
Handlers == [decodes : SUBSET JobArgs, succeeds : SUBSET JobArgs]

ReturnJobInfo_fail(id) == [id |-> id, result |-> "Failure"]
ReturnJobInfo_pass(id) == [id |-> id, result |-> "Success"]
ReturnJobInfo_missing_processor(id) == [id |-> id, result |-> "MissingProcessor"]

\* Processor::process: serde_json::from_value, then Job::run
Processor_process(h, args) ==
    IF args \in h.decodes
    THEN IF args \in h.succeeds THEN "Ok" ELSE "Processing"
    ELSE "Json"

register_processor(inner, name, h) == [inner EXCEPT ![name] = Some(h)]

\* faulty variant: an error of the job is reported as a success
process_pass(process_fn, job) == ReturnJobInfo_pass(job.id)

process(process_fn, job) ==
    IF Processor_process(process_fn, job.args) = "Ok"
    THEN ReturnJobInfo_pass(job.id)
    ELSE ReturnJobInfo_fail(job.id)

process_job(inner, job) ==
    IF IsSome(inner[job.processor])
    THEN process(Unwrap(inner[job.processor]), job)
    ELSE ReturnJobInfo_missing_processor(job.id)

\* ------------------------------------------------------------ the storage
\* One record for both backends.  memory_storage::Inner / SledStorage:
\*   count              / sled::Db id generator
\*   jobs               / jobinfo tree
\*   queues             / queue tree
\*   worker_ids         / running_inverse tree  (job id -> runner id)
\*   worker_ids_inverse / running tree          (runner id -> job id)
\*   stats              / stats tree
\*   lock               / lock tree (sled only)
StorageNew(backend) ==
    [backend |-> backend,
     count |-> 0,
     jobs |-> [i \in Ids |-> None],
     queues |-> [i \in Ids |-> None],
     worker_ids |-> [i \in Ids |-> None],
     worker_ids_inverse |-> [r \in Runners |-> None],
     stats |-> StatsDefault,
     lock |-> [q \in Queues |-> None]]

generate_id(st) == [id |-> st.count, st |-> [st EXCEPT !.count = @ + 1]]

save_job(st, job) == [st EXCEPT !.jobs[job.id] = Some(job)]

fetch_job(st, id) == st.jobs[id]

update_stats(st, f) == [st EXCEPT !.stats = ApplyStats(f, @)]

\* single tree operations of the sled backend (each is atomic in sled)
queue_set(st, id, queue) == [st EXCEPT !.queues[id] = Some(queue)]
queue_del(st, id) == [st EXCEPT !.queues[id] = None]
jobinfo_del(st, id) == [st EXCEPT !.jobs[id] = None]
running_set(st, runner_id, id) == [st EXCEPT !.worker_ids_inverse[runner_id] = Some(id)]
running_del(st, runner_id) == [st EXCEPT !.worker_ids_inverse[runner_id] = None]
running_inverse_set(st, id, runner_id) == [st EXCEPT !.worker_ids[id] = Some(runner_id)]
running_inverse_del(st, id) == [st EXCEPT !.worker_ids[id] = None]

\* The jobs fetch_job_from_queue may return.  memory: HashMap iteration order
\* is arbitrary and there is no readiness filter; sled: the first entry of
\* the queue tree in key order that is in `queue`, has a record and is ready.
MemCandidates(st, queue) ==
    {id \in Ids : st.queues[id] = Some(queue) /\ IsSome(st.jobs[id])}

SledReady(st, queue, now) ==
    {id \in Ids : /\ st.queues[id] = Some(queue)
                  /\ IsSome(st.jobs[id])
                  /\ is_ready(Unwrap(st.jobs[id]), now)}

SledCandidates(st, queue, now) ==
    LET ready == SledReady(st, queue, now)
    IN  {id \in ready : \A other \in ready : id <= other}

Candidates(st, queue, now) ==
    IF st.backend = "memory" THEN MemCandidates(st, queue)
    ELSE SledCandidates(st, queue, now)

\* pick is None or Some(id) with id one of Candidates
Picks(st, queue, now) ==
    IF Candidates(st, queue, now) = {} THEN {None}
    ELSE {Some(id) : id \in Candidates(st, queue, now)}

\* faulty variant: the job returned stays in the queue
fetch_job_from_queue_keep(st, queue, pick) ==
    IF IsSome(pick)
    THEN [job |-> st.jobs[Unwrap(pick)], st |-> st]
    ELSE [job |-> None, st |-> st]

fetch_job_from_queue(st, queue, pick) ==
    IF IsSome(pick)
    THEN [job |-> st.jobs[Unwrap(pick)], st |-> queue_del(st, Unwrap(pick))]
    ELSE [job |-> None, st |-> st]

mem_queue_job(st, queue, id) == queue_set(st, id, queue)

\* faulty variant: the runner binding is left in place
sled_queue_job_keep(st, queue, id) == queue_set(st, id, queue)

sled_queue_job(st, queue, id) ==
    LET runner == st.worker_ids[id]
        s1 == running_inverse_del(st, id)
        s2 == IF IsSome(runner) THEN running_del(s1, Unwrap(runner)) ELSE s1
    IN  queue_set(s2, id, queue)

queue_job(st, queue, id) ==
    IF st.backend = "memory" THEN mem_queue_job(st, queue, id)
    ELSE sled_queue_job(st, queue, id)

\* faulty variant: only the runner -> job direction is recorded
mem_run_job_inverse_only(st, id, runner_id) == running_set(st, runner_id, id)

mem_run_job(st, id, runner_id) ==
    running_set(running_inverse_set(st, id, runner_id), runner_id, id)

sled_run_job(st, id, runner_id) ==
    running_inverse_set(running_set(queue_del(st, id), runner_id, id), id, runner_id)

run_job(st, id, runner_id) ==
    IF st.backend = "memory" THEN mem_run_job(st, id, runner_id)
    ELSE sled_run_job(st, id, runner_id)

\* both backends: record, queue entry, then the binding found under the job
delete_job(st, id) ==
    LET runner == st.worker_ids[id]
        s1 == running_inverse_del(queue_del(jobinfo_del(st, id), id), id)
    IN  IF IsSome(runner) THEN running_del(s1, Unwrap(runner)) ELSE s1

\* ------------------------------------- derived operations (Storage trait)
new_job(st, info) ==
    LET g == generate_id(st)
        job == with_id(info, g.id)
    IN  [id |-> g.id,
         st |-> update_stats(queue_job(save_job(g.st, job), job.queue, g.id), "new_job")]

request_job(st, queue, runner_id, now, pick) ==
    LET f == fetch_job_from_queue(st, queue, pick)
    IN  IF IsSome(f.job)
        THEN LET job == Unwrap(f.job)
             IN  IF is_pending(job) /\ is_ready(job, now) /\ is_in_queue(job, queue)
                 THEN [job |-> Some(run(job)),
                       st |-> update_stats(
                                 save_job(run_job(f.st, job.id, runner_id), run(job)),
                                 "run_job")]
                 ELSE [job |-> None, st |-> f.st]
        ELSE [job |-> None, st |-> f.st]

return_job(st, id, result, now) ==
    IF result = "Failure"
    THEN IF IsSome(fetch_job(st, id))
         THEN LET r == needs_retry(Unwrap(fetch_job(st, id)), now)
              IN  IF r.retry
                  THEN update_stats(save_job(queue_job(st, r.job.queue, id), r.job),
                                    "retry_job")
                  ELSE update_stats(delete_job(st, id), "fail_job")
         ELSE st
    ELSE IF result = "MissingProcessor"
    THEN IF IsSome(fetch_job(st, id))
         THEN LET job == pending(Unwrap(fetch_job(st, id)))
              IN  update_stats(save_job(queue_job(st, job.queue, id), job), "retry_job")
         ELSE st
    ELSE update_stats(delete_job(st, id), "complete_job")

\* ------------------------------------------------------------------ state
VARIABLES
    storage,    \* the shared storage (memory_storage::Inner or the sled trees)
    now,        \* Utc::now(), in seconds
    submitted,  \* id -> Some(NewJobInfo) once new_job has created the id
    attempts,   \* id -> number of times request_job returned the job
    failures,   \* id -> number of return_job(Failure) calls for the job
                \*       (both counted while clean[id] holds)
    clean,      \* id -> every fetch of the job found it ready and every
                \*       return of it was a Failure
    nthreads,   \* ServerConfig.threads: the server actors of the SyncArbiter
    workers,    \* runner id -> queue of each LocalWorker WorkerConfig::start creates
    started,    \* the workers whose Actor::started has run
    mailbox,    \* the messages sent to Addr<Server>, in the order they were sent
    th,         \* per server thread: the message in hand and where its handler is
    cache,      \* per server thread: Server.cache, queue -> parked workers
    inbox,      \* per worker: the ProcessJob messages sent to it and not yet answered
    sent,       \* number of QueueHandle::queue calls
    pings,      \* number of Pinger intervals that have fired
    queue_ok,   \* number of QueueHandle::queue calls that returned Ok(())
    new_job_err, \* number of NewJob handlers that returned Err (storage.new_job failed)
    errors,     \* number of storage calls that returned Err
    config,     \* WorkerConfig.queues while the configuration is built: queue -> count
    spawned,    \* Some(the workers WorkerConfig::start created, in order) once it ran
    executed,   \* id -> number of times a worker ran the job (counted where every
                \*       run has the same outcome)
    last_op,    \* Some(the operation applied last and the value it was applied to)
                \*       where single operations are applied to chosen values
    processors, \* ProcessorMap.inner: processor name -> Some(the registered handler)
    jobstat     \* one JobStat counter (Stats.dead or Stats.complete)

storeVars == <<storage, now>>
histVars == <<submitted, attempts, failures, clean, queue_ok, new_job_err, errors,
              config, spawned, executed, last_op, processors, jobstat>>
pureVars == <<processors, jobstat>>
serverVars == <<nthreads, workers, started, mailbox, th, cache, inbox, sent, pings>>
vars == <<storage, now, submitted, attempts, failures, clean,
          nthreads, workers, started, mailbox, th, cache, inbox, sent, pings,
          queue_ok, new_job_err, errors, config, spawned, executed, last_op,
          processors, jobstat>>

Threads == 1 .. NThreads

NoMsg == [type |-> "none"]
ThreadIdle ==
    [pc |-> "idle", msg |-> NoMsg, job |-> None, worker |-> None, queue |-> None,
     tmp |-> None, queues |-> {}]

\* no server runs: the state of the server variables while the storage is
\* driven directly
ServerOff ==
    /\ nthreads = 0
    /\ workers = <<>>
    /\ started = {}
    /\ mailbox = <<>>
    /\ th = [t \in Threads |-> ThreadIdle]
    /\ cache = [t \in Threads |-> [q \in Queues |-> <<>>]]
    /\ inbox = [w \in Runners |-> <<>>]
    /\ sent = 0
    /\ pings = 0

Results == {"Success", "Failure", "MissingProcessor"}

\* the jobs a client submits: an immediate job with one retry, a scheduled
\* job with no retry, and an immediate job of the other queue that is
\* retried for ever
NewJobInfos ==
    {NewJobInfo("P", "a", "args", Count(1), Exponential(2), None),
     NewJobInfo("P", "a", "args", Count(0), Linear(1), Some(1)),
     NewJobInfo("P", "b", "args", Infinite, Linear(1), None)}

HistInit ==
    /\ submitted = [i \in Ids |-> None]
    /\ attempts = [i \in Ids |-> 0]
    /\ failures = [i \in Ids |-> 0]
    /\ clean = [i \in Ids |-> TRUE]
    /\ queue_ok = 0
    /\ new_job_err = 0
    /\ errors = 0
    /\ config = [q \in Queues |-> None]
    /\ spawned = None
    /\ executed = [i \in Ids |-> 0]
    /\ last_op = None
    /\ processors = [name \in ProcessorNames |-> None]
    /\ jobstat = JobStat_default(0)

\* ------------------------------------------------------------------------
\* The storage contract on its own: each derived operation is one step.
\* request_job is called for any queue and runner id; return_job is called
\* for a job that request_job has returned and that is still Running, as
\* the workers do.
StoreInit ==
    /\ storage \in {StorageNew(b) : b \in Backends}
    /\ now = 0
    /\ HistInit
    /\ ServerOff

Tick ==
    /\ now < MaxTime
    /\ now' = now + 1
    /\ UNCHANGED <<storage, histVars, serverVars>>

StoreNewJob(info) ==
    /\ storage.count < MaxJobs
    /\ LET r == new_job(storage, info)
       IN  /\ storage' = r.st
           /\ submitted' = [submitted EXCEPT ![r.id] = Some(info)]
    /\ UNCHANGED <<now, attempts, failures, clean, queue_ok, new_job_err, errors, config, spawned,
                   executed, last_op, pureVars, serverVars>>

StoreRequestJob(queue, runner_id, pick) ==
    /\ pick \in Picks(storage, queue, now)
    /\ LET f == fetch_job_from_queue(storage, queue, pick)
           r == request_job(storage, queue, runner_id, now, pick)
       IN  /\ storage' = r.st
           /\ attempts' = IF IsSome(r.job) /\ clean[Unwrap(r.job).id]
                          THEN [attempts EXCEPT ![Unwrap(r.job).id] = @ + 1]
                          ELSE attempts
           /\ clean' = IF IsSome(f.job) /\ ~IsSome(r.job)
                       THEN [clean EXCEPT ![Unwrap(f.job).id] = FALSE]
                       ELSE clean
    /\ UNCHANGED <<now, submitted, failures, queue_ok, new_job_err, errors, config, spawned,
                   executed, last_op, pureVars, serverVars>>

StoreReturnJob(id, result) ==
    /\ IsSome(storage.jobs[id])
    /\ Unwrap(storage.jobs[id]).status = "Running"
    /\ storage' = return_job(storage, id, result, now)
    /\ failures' = IF result = "Failure" /\ clean[id] THEN [failures EXCEPT ![id] = @ + 1] ELSE failures
    /\ clean' = IF result = "Failure" THEN clean ELSE [clean EXCEPT ![id] = FALSE]
    /\ UNCHANGED <<now, submitted, attempts, queue_ok, new_job_err, errors, config, spawned,
                   executed, last_op, pureVars, serverVars>>

StoreNext ==
    \/ Tick
    \/ \E info \in NewJobInfos : StoreNewJob(info)
    \/ \E queue \in Queues, runner_id \in Runners, pick \in {None} \cup {Some(i) : i \in Ids} :
          StoreRequestJob(queue, runner_id, pick)
    \/ \E id \in Ids, result \in Results : StoreReturnJob(id, result)

StoreSpec == StoreInit /\ [][StoreNext]_vars

\* ------------------------------------------------------------------------
\* Properties of the storage contract (StoreSpec)

Queued(id) == IsSome(storage.queues[id])
Bound(id) == IsSome(storage.worker_ids[id])
Stored(id) == IsSome(storage.jobs[id])
Job(id) == Unwrap(storage.jobs[id])

\* C4: sled backend, derived operations as single steps: an id with a stored
\* record is in the queue tree or has a runner id under its job key in the
\* running-inverse tree, never both and never neither; an id without a
\* record is in neither.
C4_OneBucket ==
    storage.backend = "sled" =>
        \A id \in Ids :
            IF Stored(id) THEN Queued(id) # Bound(id)
            ELSE ~Queued(id) /\ ~Bound(id)

\* a job that failed once is back in the queue while another one runs
C4_Witness ==
    /\ storage.backend = "sled"
    /\ \E id \in Ids : Stored(id) /\ Queued(id) /\ Job(id).retry_count = 1
    /\ \E id \in Ids : Stored(id) /\ Bound(id) /\ Job(id).status = "Running"

\* what the documentation of fetch_job_from_queue promises of one call
FetchContract(st, queue, t, f) ==
    /\ IsSome(f.job) =>
          /\ st.queues[Unwrap(f.job).id] = Some(queue)
          /\ is_in_queue(Unwrap(f.job), queue)
          /\ is_ready(Unwrap(f.job), t)
          /\ f.st.queues[Unwrap(f.job).id] = None
    /\ \A id \in Ids :
          f.st.queues[id] # st.queues[id] => IsSome(f.job) /\ Unwrap(f.job).id = id

\* C8: every call of fetch_job_from_queue, in either backend, returns only
\* a job that is in the queue and ready at the time of the call, and takes
\* out of the queue exactly the job it returns.
C8_FetchOnlyReady ==
    [][\A queue \in Queues, runner_id \in Runners, pick \in {None} \cup {Some(i) : i \in Ids} :
          StoreRequestJob(queue, runner_id, pick) =>
              FetchContract(storage, queue, now,
                            fetch_job_from_queue(storage, queue, pick))]_vars

\* C9: a job all of whose attempts are returned as Failure, each attempt
\* requested once the job is ready: with Count(n) the failures 1..n re-queue
\* it with retry_count = the number of failures, failure n+1 deletes the
\* record, and there are never more than n+1 attempts; with Infinite every
\* failure re-queues it.
C9_State ==
    \A id \in Ids :
        IsSome(submitted[id]) /\ clean[id] =>
            LET mr == Unwrap(submitted[id]).max_retries
                f == failures[id]
                a == attempts[id]
                kept == /\ Stored(id)
                        /\ Job(id).retry_count = f
                        /\ IF a = f THEN Queued(id) /\ Job(id).status = "Pending"
                           ELSE ~Queued(id) /\ Job(id).status = "Running"
            IN  /\ a \in {f, f + 1}
                /\ IF mr = Infinite THEN kept
                   ELSE /\ a <= mr[2] + 1
                        /\ IF f <= mr[2] THEN kept
                           ELSE f = mr[2] + 1 /\ a = f /\ ~Stored(id) /\ ~Queued(id)

\* the failure that deletes the record adds exactly one to stats.dead, a
\* failure that re-queues adds nothing
C9_Step ==
    \A id \in Ids :
        StoreReturnJob(id, "Failure") =>
            storage'.stats.dead =
                storage.stats.dead + (IF IsSome(storage'.jobs[id]) THEN 0 ELSE 1)

C9_AttemptsTotal == []C9_State /\ [][C9_Step]_vars

\* a Count(1) job has failed twice and is gone, counted dead
C9_Witness ==
    \E id \in Ids :
        /\ IsSome(submitted[id]) /\ clean[id]
        /\ Unwrap(submitted[id]).max_retries = Count(1)
        /\ attempts[id] = 2 /\ failures[id] = 2
        /\ ~Stored(id)
        /\ storage.stats.dead >= 1

BackoffSeconds(backoff_strategy, r) ==
    IF backoff_strategy[1] = "Linear" THEN backoff_strategy[2]
    ELSE Pow(backoff_strategy[2], r)

\* C10: a return_job(Failure) at time now that re-queues the job stores
\* retry_count one higher than before and next_queue = now + secs for
\* Linear(secs), now + base^retry_count (the count just stored) for
\* Exponential(base): 2 seconds for the first retry of Exponential(2).
C10_Step ==
    \A id \in Ids :
        StoreReturnJob(id, "Failure") /\ IsSome(storage'.jobs[id]) =>
            LET old == Unwrap(storage.jobs[id])
                new == Unwrap(storage'.jobs[id])
            IN  /\ new.retry_count = old.retry_count + 1
                /\ new.next_queue =
                      Some(now + BackoffSeconds(new.backoff_strategy, new.retry_count))
                /\ (new.backoff_strategy = Exponential(2) /\ old.retry_count = 0)
                      => new.next_queue = Some(now + 2)

C10_BackoffDelay == [][C10_Step]_vars

\* an Exponential(2) job failed at time 1 and waits until after time 3
C10_Witness ==
    \E id \in Ids :
        /\ Stored(id) /\ Queued(id)
        /\ Job(id).backoff_strategy = Exponential(2)
        /\ Job(id).retry_count = 1
        /\ Job(id).next_queue = Some(3)

\* ------------------------------------------------------------------------
\* The actix runtime: N server actors behind one address (SyncArbiter), the
\* workers, the pinger and a client.  A message sent to the address goes to
\* the arbiter's one channel; each server thread takes the next message when
\* it is idle and handles it to the end.  Handlers of different threads
\* interleave between storage calls, and with sled between the tree
\* operations a storage call is made of.

NewJob(info) == [type |-> "NewJob", info |-> info]
RequestJob(w) == [type |-> "RequestJob", worker |-> w]
\* `from` is not part of ReturnJobInfo: it names the sending worker
ReturningJob(id, result, w) ==
    [type |-> "ReturningJob", id |-> id, result |-> result, from |-> w]
CheckDb == [type |-> "CheckDb"]

\* the jobs the client submits to the server
ServerJobInfos ==
    {NewJobInfo("P", "a", "args", Count(1), Exponential(2), None),
     NewJobInfo("P", "a", "args", Count(0), Linear(1), Some(1))}

\* WorkerConfig::start for queues = {"a": count}: worker i of the queue gets
\* the id i + RunnerOffset
start(count) == [w \in RunnerOffset .. (RunnerOffset + count - 1) |-> "a"]

ServerInit ==
    /\ storage \in {StorageNew(b) : b \in Backends}
    /\ now = 0
    /\ HistInit
    /\ nthreads \in Threads
    /\ workers \in {start(count) : count \in 1 .. MaxWorkers}
    /\ started = {}
    /\ mailbox = <<>>
    /\ th = [t \in Threads |-> ThreadIdle]
    /\ cache = [t \in Threads |-> [q \in Queues |-> <<>>]]
    /\ inbox = [w \in Runners |-> <<>>]
    /\ sent = 0
    /\ pings = 0

Clock ==
    /\ now < MaxTime
    /\ now' = now + 1
    /\ UNCHANGED <<storage, histVars, serverVars>>

\* QueueHandle::queue: do_send(NewJob(..)), then Ok(()).  Processor::new_job
\* (the serialisation of the job) is taken to succeed.
QueueHandle_send(info) ==
    /\ sent < MaxJobs
    /\ sent' = sent + 1
    /\ mailbox' = Append(mailbox, NewJob(info))
    /\ queue_ok' = queue_ok + 1
    /\ UNCHANGED <<storage, now, submitted, attempts, failures, clean, new_job_err,
                   errors, config, spawned, executed, last_op, pureVars, nthreads, workers, started, th,
                   cache, inbox, pings>>

\* the same, with the load of the server kept within MaxLoad
QueueHandle_queue(info) ==
    /\ sent + Cardinality(DOMAIN workers) < MaxLoad
    /\ QueueHandle_send(info)

\* Pinger: one CheckDb per server thread each interval
RECURSIVE Repeat(_, _)
Repeat(x, n) == IF n = 0 THEN <<>> ELSE <<x>> \o Repeat(x, n - 1)

Ping ==
    /\ pings < MaxPings
    /\ pings' = pings + 1
    /\ mailbox' = mailbox \o Repeat(CheckDb, nthreads)
    /\ UNCHANGED <<storage, now, histVars, nthreads, workers, started, th, cache, inbox, sent>>

\* LocalWorker::started
WorkerStarted(w) ==
    /\ w \in DOMAIN workers
    /\ w \notin started
    /\ started' = started \cup {w}
    /\ mailbox' = Append(mailbox, RequestJob(w))
    /\ UNCHANGED <<storage, now, histVars, nthreads, workers, th, cache, inbox, sent, pings>>

\* Handler<ProcessJob> for LocalWorker: the job runs, then ReturningJob and
\* RequestJob are sent in this order.  The outcome is whatever the
\* processor map and the job make of it.
ProcessJobSend(w, result) ==
    /\ inbox[w] # <<>>
    /\ inbox' = [inbox EXCEPT ![w] = Tail(@)]
    /\ mailbox' = mailbox \o <<ReturningJob(Head(inbox[w]).job.id, result, w), RequestJob(w)>>
    /\ UNCHANGED <<storage, now, nthreads, workers, started, th, cache, sent, pings>>

ProcessJob(w, result) ==
    /\ ProcessJobSend(w, result)
    /\ UNCHANGED histVars

\* ---- the server thread t
Pc(t) == th[t].pc
LocalJob(t) == Unwrap(th[t].job)
LocalQueue(t) == Unwrap(th[t].queue)
LocalWorker(t) == Unwrap(th[t].worker)

Goto(t, pc) == th' = [th EXCEPT ![t].pc = pc]

\* start request_job(queue, worker.id) for the worker at the front of cache[queue]
PopWorker(t, c, queue, rest) ==
    /\ cache' = [c EXCEPT ![t][queue] = Tail(@)]
    /\ th' = [th EXCEPT ![t] = [@ EXCEPT !.pc = "request_job", !.job = None, !.tmp = None,
                                        !.queue = Some(queue),
                                        !.worker = Some(Head(c[t][queue])),
                                        !.queues = rest]]

\* Handler<CheckDb>: the next queue of cache.iter_mut(), in HashMap order
NextQueue(t, c, rest) ==
    IF rest = {}
    THEN cache' = c /\ th' = [th EXCEPT ![t] = ThreadIdle]
    ELSE \E q \in rest : PopWorker(t, c, q, rest \ {q})

ParkedQueues(c, t) == {q \in Queues : c[t][q] # <<>>}

\* a thread takes the next message of the arbiter's channel
Receive(t) ==
    /\ t <= nthreads
    /\ Pc(t) = "idle"
    /\ mailbox # <<>>
    /\ mailbox' = Tail(mailbox)
    /\ LET msg == Head(mailbox)
       IN  CASE msg.type = "NewJob" ->
                    /\ th' = [th EXCEPT ![t] = [ThreadIdle EXCEPT !.pc = "new_job", !.msg = msg]]
                    /\ cache' = cache
             [] msg.type = "RequestJob" ->
                    /\ th' = [th EXCEPT ![t] = [ThreadIdle EXCEPT
                                  !.pc = "request_job", !.msg = msg,
                                  !.worker = Some(msg.worker),
                                  !.queue = Some(workers[msg.worker])]]
                    /\ cache' = cache
             [] msg.type = "ReturningJob" ->
                    /\ th' = [th EXCEPT ![t] = [ThreadIdle EXCEPT
                                  !.pc = IF msg.result = "Success" THEN "delete_job"
                                         ELSE "return_job",
                                  !.msg = msg]]
                    /\ cache' = cache
             [] msg.type = "CheckDb" ->
                    IF ParkedQueues(cache, t) = {}
                    THEN th' = th /\ cache' = cache
                    ELSE \E q \in ParkedQueues(cache, t) :
                            /\ cache' = [cache EXCEPT ![t][q] = Tail(@)]
                            /\ th' = [th EXCEPT ![t] = [ThreadIdle EXCEPT
                                          !.pc = "request_job", !.msg = msg,
                                          !.queue = Some(q),
                                          !.worker = Some(Head(cache[t][q])),
                                          !.queues = ParkedQueues(cache, t) \ {q}]]
    /\ UNCHANGED <<storage, now, histVars, nthreads, workers, started, inbox, sent, pings>>

\* ---- Storage::new_job inside Handler<NewJob>
NewJobGenerateId(t) ==
    /\ Pc(t) = "new_job"
    /\ LET g == generate_id(storage)
       IN  /\ storage' = g.st
           /\ th' = [th EXCEPT ![t].pc = "new_job_save",
                               ![t].job = Some(with_id(th[t].msg.info, g.id))]
    /\ UNCHANGED <<now, histVars, nthreads, workers, started, mailbox, cache, inbox,
                   sent, pings>>

NewJobSave(t) ==
    /\ Pc(t) = "new_job_save"
    /\ storage' = save_job(storage, LocalJob(t))
    /\ Goto(t, "queue_job")
    /\ UNCHANGED <<now, histVars, nthreads, workers, started, mailbox, cache, inbox, sent, pings>>

\* where new_job and return_job go on after queue_job
AfterQueueJob(t) ==
    IF th[t].msg.type = "NewJob" THEN "new_job_stats" ELSE "return_job_save"

\* memory_storage::queue_job
MemQueueJob(t) ==
    /\ Pc(t) = "queue_job"
    /\ storage.backend = "memory"
    /\ storage' = mem_queue_job(storage, LocalJob(t).queue, LocalJob(t).id)
    /\ Goto(t, AfterQueueJob(t))
    /\ UNCHANGED <<now, histVars, nthreads, workers, started, mailbox, cache, inbox, sent, pings>>

\* SledStorage::queue_job: running_inverse.del, running.del, queue.set
SledQueueJobInverseDel(t) ==
    /\ Pc(t) = "queue_job"
    /\ storage.backend = "sled"
    /\ storage' = running_inverse_del(storage, LocalJob(t).id)
    /\ th' = [th EXCEPT ![t].tmp = storage.worker_ids[LocalJob(t).id],
                        ![t].pc = IF IsSome(storage.worker_ids[LocalJob(t).id])
                                  THEN "queue_job_running_del" ELSE "queue_job_set"]
    /\ UNCHANGED <<now, histVars, nthreads, workers, started, mailbox, cache, inbox, sent, pings>>

SledQueueJobRunningDel(t) ==
    /\ Pc(t) = "queue_job_running_del"
    /\ storage' = running_del(storage, Unwrap(th[t].tmp))
    /\ th' = [th EXCEPT ![t].tmp = None, ![t].pc = "queue_job_set"]
    /\ UNCHANGED <<now, histVars, nthreads, workers, started, mailbox, cache, inbox, sent, pings>>

SledQueueJobSet(t) ==
    /\ Pc(t) = "queue_job_set"
    /\ storage' = queue_set(storage, LocalJob(t).id, LocalJob(t).queue)
    /\ Goto(t, AfterQueueJob(t))
    /\ UNCHANGED <<now, histVars, nthreads, workers, started, mailbox, cache, inbox, sent, pings>>

\* update_stats(Stats::new_job), then the rest of Handler<NewJob>
NewJobStats(t) ==
    /\ Pc(t) = "new_job_stats"
    /\ storage' = update_stats(storage, "new_job")
    /\ LET q == th[t].msg.info.queue
       IN  IF new_is_ready(th[t].msg.info) /\ cache[t][q] # <<>>
           THEN PopWorker(t, cache, q, {})
           ELSE cache' = cache /\ th' = [th EXCEPT ![t] = ThreadIdle]
    /\ UNCHANGED <<now, histVars, nthreads, workers, started, mailbox, inbox, sent, pings>>

\* ---- Storage::request_job, called by the handlers of NewJob, RequestJob
\* ---- and CheckDb for the worker th[t].worker and the queue th[t].queue

\* faulty variant: Handler<NewJob> does not park the worker again when no job
\* came back
RequestJobDoneNoRepark(t, result) ==
    LET w == LocalWorker(t)
        q == LocalQueue(t)
        parked == IF IsSome(result) \/ th[t].msg.type = "NewJob" THEN cache
                  ELSE [cache EXCEPT ![t][q] = Append(@, w)]
    IN  /\ inbox' = IF IsSome(result)
                    THEN [inbox EXCEPT ![w] = Append(@, [job |-> Unwrap(result), at |-> now])]
                    ELSE inbox
        /\ IF th[t].msg.type = "CheckDb"
           THEN IF IsSome(result) /\ cache[t][q] # <<>>
                THEN PopWorker(t, cache, q, th[t].queues)
                ELSE NextQueue(t, parked, th[t].queues)
           ELSE cache' = parked /\ th' = [th EXCEPT ![t] = ThreadIdle]

\* faulty variant: Handler<CheckDb> goes on with the same queue after None
RequestJobDoneNoBreak(t, result) ==
    LET w == LocalWorker(t)
        q == LocalQueue(t)
        parked == IF IsSome(result) THEN cache
                  ELSE [cache EXCEPT ![t][q] = Append(@, w)]
    IN  /\ inbox' = IF IsSome(result)
                    THEN [inbox EXCEPT ![w] = Append(@, [job |-> Unwrap(result), at |-> now])]
                    ELSE inbox
        /\ IF th[t].msg.type = "CheckDb"
           THEN IF parked[t][q] # <<>>
                THEN PopWorker(t, parked, q, th[t].queues)
                ELSE NextQueue(t, parked, th[t].queues)
           ELSE cache' = parked /\ th' = [th EXCEPT ![t] = ThreadIdle]

\* what the calling handler does with the result of request_job: hand the
\* job to the worker or park the worker again; CheckDb goes on with the next
\* parked worker after a job and with the next queue after None
RequestJobDone(t, result) ==
    LET w == LocalWorker(t)
        q == LocalQueue(t)
        parked == IF IsSome(result) THEN cache
                  ELSE [cache EXCEPT ![t][q] = Append(@, w)]
    IN  /\ inbox' = IF IsSome(result)
                    THEN [inbox EXCEPT ![w] = Append(@, [job |-> Unwrap(result), at |-> now])]
                    ELSE inbox
        /\ IF th[t].msg.type = "CheckDb"
           THEN IF IsSome(result) /\ cache[t][q] # <<>>
                THEN PopWorker(t, cache, q, th[t].queues)
                ELSE NextQueue(t, parked, th[t].queues)
           ELSE cache' = parked /\ th' = [th EXCEPT ![t] = ThreadIdle]

\* the test request_job makes of the job fetch_job_from_queue returned
RequestJobCheck(t, fetched) ==
    IF /\ IsSome(fetched)
       /\ is_pending(Unwrap(fetched))
       /\ is_ready(Unwrap(fetched), now)
       /\ is_in_queue(Unwrap(fetched), LocalQueue(t))
    THEN /\ th' = [th EXCEPT ![t].job = Some(run(Unwrap(fetched))), ![t].pc = "run_job"]
         /\ UNCHANGED <<cache, inbox>>
    ELSE RequestJobDone(t, None)

\* memory_storage::fetch_job_from_queue, under the mutex
MemFetchJobFromQueue(t) ==
    /\ Pc(t) = "request_job"
    /\ storage.backend = "memory"
    /\ \E pick \in Picks(storage, LocalQueue(t), now) :
          LET f == fetch_job_from_queue(storage, LocalQueue(t), pick)
          IN  storage' = f.st /\ RequestJobCheck(t, f.job)
    /\ UNCHANGED <<now, histVars, nthreads, workers, started, mailbox, sent, pings>>

\* SledStorage::lock_queue: spin until lock[queue] is empty and take it.
\* The id installed is fresh for each call; the thread stands for it.
\* the closure given to lock.fetch_and_update, and the test that ends the loop
\* on the value fetch_and_update returns (the value before the update)
lock_update(opt, id) == IF IsSome(opt) THEN opt ELSE Some(id)

\* faulty variant: the loop ends whatever the lock held
lock_taken_unchecked(prev) == TRUE

lock_taken(prev) == ~IsSome(prev)

SledLockQueue(t) ==
    /\ Pc(t) = "request_job"
    /\ storage.backend = "sled"
    /\ lock_taken(storage.lock[LocalQueue(t)])
    /\ storage' = [storage EXCEPT !.lock[LocalQueue(t)] = lock_update(@, t)]
    /\ Goto(t, "fetch_scan")
    /\ UNCHANGED <<now, histVars, nthreads, workers, started, mailbox, cache, inbox, sent, pings>>

\* SledStorage::fetch_job_from_queue, the closure: scan of the queue tree
SledFetchScan(t) ==
    /\ Pc(t) = "fetch_scan"
    /\ \E pick \in Picks(storage, LocalQueue(t), now) :
          th' = [th EXCEPT ![t].job = IF IsSome(pick) THEN storage.jobs[Unwrap(pick)] ELSE None,
                           ![t].pc = IF IsSome(pick) THEN "fetch_del" ELSE "fetch_unlock"]
    /\ UNCHANGED <<storage, now, histVars, nthreads, workers, started, mailbox, cache, inbox,
                   sent, pings>>

SledFetchDel(t) ==
    /\ Pc(t) = "fetch_del"
    /\ storage' = queue_del(storage, LocalJob(t).id)
    /\ Goto(t, "fetch_unlock")
    /\ UNCHANGED <<now, histVars, nthreads, workers, started, mailbox, cache, inbox, sent, pings>>

\* lock_queue clears the lock; request_job then tests the job
SledUnlockQueue(t) ==
    /\ Pc(t) = "fetch_unlock"
    /\ storage' = [storage EXCEPT !.lock[LocalQueue(t)] = None]
    /\ RequestJobCheck(t, th[t].job)
    /\ UNCHANGED <<now, histVars, nthreads, workers, started, mailbox, sent, pings>>

\* memory_storage::run_job
MemRunJob(t) ==
    /\ Pc(t) = "run_job"
    /\ storage.backend = "memory"
    /\ storage' = mem_run_job(storage, LocalJob(t).id, LocalWorker(t))
    /\ Goto(t, "request_job_save")
    /\ UNCHANGED <<now, histVars, nthreads, workers, started, mailbox, cache, inbox, sent, pings>>

\* SledStorage::run_job: queue.del, running.set, running_inverse.set
SledRunJobQueueDel(t) ==
    /\ Pc(t) = "run_job"
    /\ storage.backend = "sled"
    /\ storage' = queue_del(storage, LocalJob(t).id)
    /\ Goto(t, "run_job_running_set")
    /\ UNCHANGED <<now, histVars, nthreads, workers, started, mailbox, cache, inbox, sent, pings>>

SledRunJobRunningSet(t) ==
    /\ Pc(t) = "run_job_running_set"
    /\ storage' = running_set(storage, LocalWorker(t), LocalJob(t).id)
    /\ Goto(t, "run_job_inverse_set")
    /\ UNCHANGED <<now, histVars, nthreads, workers, started, mailbox, cache, inbox, sent, pings>>

SledRunJobInverseSet(t) ==
    /\ Pc(t) = "run_job_inverse_set"
    /\ storage' = running_inverse_set(storage, LocalJob(t).id, LocalWorker(t))
    /\ Goto(t, "request_job_save")
    /\ UNCHANGED <<now, histVars, nthreads, workers, started, mailbox, cache, inbox, sent, pings>>

RequestJobSave(t) ==
    /\ Pc(t) = "request_job_save"
    /\ storage' = save_job(storage, LocalJob(t))
    /\ Goto(t, "request_job_stats")
    /\ UNCHANGED <<now, histVars, nthreads, workers, started, mailbox, cache, inbox, sent, pings>>

\* update_stats(Stats::run_job); request_job returns Some(job)
RequestJobStats(t) ==
    /\ Pc(t) = "request_job_stats"
    /\ storage' = update_stats(storage, "run_job")
    /\ RequestJobDone(t, th[t].job)
    /\ UNCHANGED <<now, histVars, nthreads, workers, started, mailbox, sent, pings>>

\* ---- Storage::return_job inside Handler<ReturningJob>

\* Failure and MissingProcessor: fetch_job, then needs_retry or pending
ReturnJobFetch(t) ==
    /\ Pc(t) = "return_job"
    /\ LET o == fetch_job(storage, th[t].msg.id)
           r == needs_retry(Unwrap(o), now)
       IN  th' = IF ~IsSome(o) THEN [th EXCEPT ![t] = ThreadIdle]
                 ELSE IF th[t].msg.result = "Failure"
                 THEN [th EXCEPT ![t].job = Some(r.job),
                                 ![t].pc = IF r.retry THEN "queue_job" ELSE "delete_job"]
                 ELSE [th EXCEPT ![t].job = Some(pending(Unwrap(o))),
                                 ![t].pc = "queue_job"]
    /\ UNCHANGED <<storage, now, histVars, nthreads, workers, started, mailbox, cache, inbox,
                   sent, pings>>

ReturnJobSave(t) ==
    /\ Pc(t) = "return_job_save"
    /\ storage' = save_job(storage, LocalJob(t))
    /\ Goto(t, "return_job_stats")
    /\ UNCHANGED <<now, histVars, nthreads, workers, started, mailbox, cache, inbox, sent, pings>>

\* faulty variant: the handler wakes a worker parked for the queue of the job
ReturnJobStatsWake(t) ==
    /\ Pc(t) = "return_job_stats"
    /\ storage' = update_stats(storage, "retry_job")
    /\ IF cache[t][LocalJob(t).queue] # <<>>
       THEN PopWorker(t, cache, LocalJob(t).queue, {})
       ELSE cache' = cache /\ th' = [th EXCEPT ![t] = ThreadIdle]
    /\ UNCHANGED <<now, histVars, nthreads, workers, started, mailbox, inbox, sent, pings>>

ReturnJobStats(t) ==
    /\ Pc(t) = "return_job_stats"
    /\ storage' = update_stats(storage, "retry_job")
    /\ th' = [th EXCEPT ![t] = ThreadIdle]
    /\ UNCHANGED <<now, histVars, nthreads, workers, started, mailbox, cache, inbox, sent, pings>>

\* memory_storage::delete_job, under the mutex
MemDeleteJob(t) ==
    /\ Pc(t) = "delete_job"
    /\ storage.backend = "memory"
    /\ storage' = delete_job(storage, th[t].msg.id)
    /\ Goto(t, "delete_job_stats")
    /\ UNCHANGED <<now, histVars, nthreads, workers, started, mailbox, cache, inbox, sent, pings>>

\* SledStorage::delete_job: jobinfo.del, queue.del, running_inverse.del, running.del
SledDeleteJobInfoDel(t) ==
    /\ Pc(t) = "delete_job"
    /\ storage.backend = "sled"
    /\ storage' = jobinfo_del(storage, th[t].msg.id)
    /\ Goto(t, "delete_job_queue_del")
    /\ UNCHANGED <<now, histVars, nthreads, workers, started, mailbox, cache, inbox, sent, pings>>

SledDeleteJobQueueDel(t) ==
    /\ Pc(t) = "delete_job_queue_del"
    /\ storage' = queue_del(storage, th[t].msg.id)
    /\ Goto(t, "delete_job_inverse_del")
    /\ UNCHANGED <<now, histVars, nthreads, workers, started, mailbox, cache, inbox, sent, pings>>

SledDeleteJobInverseDel(t) ==
    /\ Pc(t) = "delete_job_inverse_del"
    /\ storage' = running_inverse_del(storage, th[t].msg.id)
    /\ th' = [th EXCEPT ![t].tmp = storage.worker_ids[th[t].msg.id],
                        ![t].pc = IF IsSome(storage.worker_ids[th[t].msg.id])
                                  THEN "delete_job_running_del" ELSE "delete_job_stats"]
    /\ UNCHANGED <<now, histVars, nthreads, workers, started, mailbox, cache, inbox, sent, pings>>

SledDeleteJobRunningDel(t) ==
    /\ Pc(t) = "delete_job_running_del"
    /\ storage' = running_del(storage, Unwrap(th[t].tmp))
    /\ th' = [th EXCEPT ![t].tmp = None, ![t].pc = "delete_job_stats"]
    /\ UNCHANGED <<now, histVars, nthreads, workers, started, mailbox, cache, inbox, sent, pings>>

\* update_stats(Stats::fail_job) or update_stats(Stats::complete_job)
DeleteJobStats(t) ==
    /\ Pc(t) = "delete_job_stats"
    /\ storage' = update_stats(storage, IF th[t].msg.result = "Failure" THEN "fail_job"
                                        ELSE "complete_job")
    /\ th' = [th EXCEPT ![t] = ThreadIdle]
    /\ UNCHANGED <<now, histVars, nthreads, workers, started, mailbox, cache, inbox, sent, pings>>

\* the steps every backend takes
CommonStep(t) ==
    \/ Receive(t)
    \/ NewJobGenerateId(t)
    \/ NewJobSave(t)
    \/ NewJobStats(t)
    \/ RequestJobSave(t)
    \/ RequestJobStats(t)
    \/ ReturnJobFetch(t)
    \/ ReturnJobSave(t)
    \/ ReturnJobStats(t)
    \/ DeleteJobStats(t)

MemStep(t) ==
    \/ MemQueueJob(t)
    \/ MemFetchJobFromQueue(t)
    \/ MemRunJob(t)
    \/ MemDeleteJob(t)

SledStep(t) ==
    \/ SledQueueJobInverseDel(t)
    \/ SledQueueJobRunningDel(t)
    \/ SledQueueJobSet(t)
    \/ SledLockQueue(t)
    \/ SledFetchScan(t)
    \/ SledFetchDel(t)
    \/ SledUnlockQueue(t)
    \/ SledRunJobQueueDel(t)
    \/ SledRunJobRunningSet(t)
    \/ SledRunJobInverseSet(t)
    \/ SledDeleteJobInfoDel(t)
    \/ SledDeleteJobQueueDel(t)
    \/ SledDeleteJobInverseDel(t)
    \/ SledDeleteJobRunningDel(t)

Environment ==
    \/ Clock
    \/ \E info \in ServerJobInfos : QueueHandle_queue(info)
    \/ Ping
    \/ \E w \in Runners : WorkerStarted(w)
    \/ \E w \in Runners, result \in Results : ProcessJob(w, result)

Next ==
    \/ Environment
    \/ \E t \in Threads : CommonStep(t) \/ MemStep(t) \/ SledStep(t)

Spec == ServerInit /\ [][Next]_vars

\* ------------------------------------------------------------------------
\* Claims on the running server (Spec)

\* the job ids worker w has been sent in ProcessJob and not yet returned
Held(w) == {inbox[w][i].job.id : i \in 1 .. Len(inbox[w])}

Handling(t, type) == Pc(t) # "idle" /\ th[t].msg.type = type

\* C1: no two different workers hold at the same time a ProcessJob for the
\* same job id that neither has answered with ReturningJob, whatever the
\* backend, the number of server threads and the order of the messages.
C1_AtMostOnceHandoff ==
    \A w1 \in Runners, w2 \in Runners : w1 # w2 => Held(w1) \cap Held(w2) = {}

\* two workers and two threads: one worker holds a job while a thread is
\* inside request_job for the other worker
C1_Witness ==
    /\ nthreads = 2
    /\ \E w1 \in DOMAIN workers, w2 \in DOMAIN workers, t \in Threads :
          /\ w1 # w2
          /\ Held(w1) # {}
          /\ Pc(t) = "request_job"
          /\ th[t].worker = Some(w2)

\* C2: while a server thread is still handling the ReturningJob a worker
\* sent, no thread has begun the request_job of the RequestJob the same
\* worker sent right after it.
C2_ReturnBeforeRequest ==
    \A t1 \in Threads, t2 \in Threads :
        ( /\ Handling(t1, "ReturningJob")
          /\ Handling(t2, "RequestJob")
          /\ th[t2].msg.worker = th[t1].msg.from )
        => Pc(t2) = "request_job"

Quiescent == \A t \in Threads : Pc(t) = "idle"

\* running (runner -> job) and running-inverse (job -> runner) are inverses
MutualInverse ==
    \A id \in Ids, r \in Runners :
        storage.worker_ids[id] = Some(r) <=> storage.worker_ids_inverse[r] = Some(id)

\* C3: sled backend, two or more server threads, no storage operation
\* mid-flight: the runner->job tree and the job->runner tree are mutual
\* inverses and every stored job with status Running has an entry in both.
C3_RunningBijection ==
    (storage.backend = "sled" /\ nthreads >= 2 /\ Quiescent)
    => /\ MutualInverse
       /\ \A id \in Ids :
             (Stored(id) /\ Job(id).status = "Running")
             => /\ Bound(id)
                /\ \E r \in Runners : storage.worker_ids_inverse[r] = Some(id)

\* C5: in every state, the ones between the storage calls of a derived
\* operation included, a stored job with status Running is bound to a
\* runner-id and is in no queue.
C5_RunningIsBound ==
    \A id \in Ids :
        (Stored(id) /\ Job(id).status = "Running") => (Bound(id) /\ ~Queued(id))

\* C6: every job a worker has been sent was handed over at a time strictly
\* after the next_queue it carries, be it the initial schedule or one a
\* backoff has set.
C6_NeverBeforeNextQueue ==
    \A w \in Runners : \A i \in 1 .. Len(inbox[w]) :
        IsSome(inbox[w][i].job.next_queue)
        => inbox[w][i].at > Unwrap(inbox[w][i].job.next_queue)

\* a retried job, whose next_queue a backoff has set, is handed to a worker
C6_Witness ==
    \E w \in Runners : \E i \in 1 .. Len(inbox[w]) :
        /\ inbox[w][i].job.retry_count >= 1
        /\ IsSome(inbox[w][i].job.next_queue)
        /\ inbox[w][i].at > Unwrap(inbox[w][i].job.next_queue)

\* ------------------------------------------------------------------------
\* A scheduled job on the in-memory backend: one server thread, one worker
\* of queue "a" that has the job's processor registered, the pinger firing
\* for ever, the clock, the pinger, the worker and the server thread all
\* making progress.

ScheduledJob == NewJobInfo("P", "a", "args", Count(1), Linear(1), Some(1))

MemInit ==
    /\ storage = StorageNew("memory")
    /\ now = 0
    /\ HistInit
    /\ nthreads = 1
    /\ workers = start(1)
    /\ started = {}
    /\ mailbox = <<>>
    /\ th = [t \in Threads |-> ThreadIdle]
    /\ cache = [t \in Threads |-> [q \in Queues |-> <<>>]]
    /\ inbox = [w \in Runners |-> <<>>]
    /\ sent = 0
    /\ pings = 0

\* Pinger: run_interval fires again and again; the server has taken the
\* earlier messages by then
PingerInterval ==
    /\ mailbox = <<>>
    /\ mailbox' = Repeat(CheckDb, nthreads)
    /\ UNCHANGED <<storage, now, histVars, nthreads, workers, started, th, cache, inbox,
                   sent, pings>>

SubmitScheduled ==
    /\ sent = 0
    /\ QueueHandle_queue(ScheduledJob)

MemNext ==
    \/ Clock
    \/ SubmitScheduled
    \/ PingerInterval
    \/ \E w \in Runners : WorkerStarted(w)
    \/ \E w \in Runners, result \in {"Success", "Failure"} : ProcessJob(w, result)
    \/ CommonStep(1)
    \/ MemStep(1)

MemFairSpec ==
    /\ MemInit
    /\ [][MemNext]_vars
    /\ WF_vars(Clock)
    /\ WF_vars(SubmitScheduled)
    /\ WF_vars(PingerInterval)
    /\ WF_vars(\E w \in Runners : WorkerStarted(w))
    /\ WF_vars(CommonStep(1) \/ MemStep(1))

\* the job has been created and no worker has been sent it yet
NotYetHanded(id) ==
    Stored(id) /\ Job(id).status = "Pending" /\ Job(id).retry_count = 0

\* C7: in-memory backend, one thread, one worker, the pinger ticking: the
\* scheduled job, once created, is eventually handed to the worker.
C7_ScheduledEventuallyHanded ==
    NotYetHanded(0) ~> (\E w \in Runners : inbox[w] # <<>>)

\* ------------------------------------------------------------------------
\* Further properties of the storage contract (StoreSpec)

\* return_job(MissingProcessor) as the specification describes it
MissingProcessorEffect(id) ==
    /\ IsSome(storage'.jobs[id])
    /\ Unwrap(storage'.jobs[id]).status = "Pending"
    /\ storage'.queues[id] = Some(Job(id).queue)
    /\ storage'.worker_ids[id] = None
    /\ Unwrap(storage'.jobs[id]).retry_count = Job(id).retry_count
    /\ Unwrap(storage'.jobs[id]).next_queue = Job(id).next_queue
    /\ storage'.stats.dead = storage.stats.dead

\* C11: return_job(MissingProcessor) on a Running job leaves it stored as
\* Pending, in its own queue, with the runner binding cleared, retry_count
\* and next_queue unchanged, and nothing counted dead.
C11_MissingProcessorRequeues ==
    [][\A id \in Ids :
          StoreReturnJob(id, "MissingProcessor") => MissingProcessorEffect(id)]_vars

\* ------------------------------------------------------------------------
\* Further properties of the running server (Spec)

\* the step that stores the job return_job(Failure) has re-queued
SavesRetry(id) ==
    \E t \in Threads :
        /\ ReturnJobSave(t)
        /\ th[t].msg.result = "Failure"
        /\ th[t].msg.id = id

C12_Step ==
    \A id \in Ids :
        /\ (~Stored(id) /\ IsSome(storage'.jobs[id]))
              => Unwrap(storage'.jobs[id]).retry_count = 0
        /\ (Stored(id) /\ IsSome(storage'.jobs[id]))
              => \/ Unwrap(storage'.jobs[id]).retry_count = Job(id).retry_count
                 \/ /\ Unwrap(storage'.jobs[id]).retry_count = Job(id).retry_count + 1
                    /\ SavesRetry(id)

C13_ReturnSuccessIdempotent ==
    [][\A id \in Ids :
          StoreReturnJob(id, "Success")
              => return_job(storage', id, "Success", now) = storage']_vars

\* what new_job(info) followed by fetch_job(id) must give
NewJobEffect(info) ==
    LET id == new_job(storage, info).id
        rec == fetch_job(storage', id)
    IN  /\ IsSome(rec)
        /\ Unwrap(rec).id = id
        /\ Unwrap(rec).retry_count = 0
        /\ Unwrap(rec).status = "Pending"
        /\ Unwrap(rec).processor = info.processor
        /\ Unwrap(rec).queue = info.queue
        /\ Unwrap(rec).args = info.args
        /\ Unwrap(rec).max_retries = info.max_retries
        /\ Unwrap(rec).backoff_strategy = info.backoff_strategy
        /\ Unwrap(rec).next_queue = info.next_queue
        /\ storage'.queues[id] = Some(info.queue)
        /\ storage'.worker_ids[id] = None
        /\ \A r \in Runners : storage'.worker_ids_inverse[r] # Some(id)
        /\ storage'.stats.pending = storage.stats.pending + 1

\* C14: new_job(info) followed by fetch_job on the id it returned gives a
\* Pending record with that id, retry_count 0 and the fields of info; the
\* id is in info.queue, bound to no runner, and stats.pending is one higher.
C14_NewJobThenFetch ==
    [][\A info \in NewJobInfos : StoreNewJob(info) => NewJobEffect(info)]_vars

\* a scheduled job has been created while another job is running
C14_Witness ==
    \E id \in Ids, other \in Ids :
        /\ submitted[id] = Some(NewJobInfo("P", "a", "args", Count(0), Linear(1), Some(1)))
        /\ Stored(id) /\ Queued(id) /\ Job(id).next_queue = Some(1)
        /\ Stored(other) /\ Job(other).status = "Running"

\* ------------------------------------------------------------------------
\* Storage errors.  Every operation of the sled backend returns a Result
\* (memory_storage::Storage has Error = Never).  One server thread on sled;
\* the tree operation a handler is about to make may fail instead.  The
\* operations inside lock_queue are taken to succeed.

InRequestJob(t) ==
    Pc(t) \in {"request_job", "run_job", "run_job_running_set", "run_job_inverse_set",
               "request_job_save", "request_job_stats"}

\* between the loop of lock_queue and its return: the closure, and the
\* fetch_and_update that clears the lock (after Ok or after Err)
InLockQueue(t) == Pc(t) \in {"fetch_scan", "fetch_del", "fetch_unlock", "fetch_unlock_err"}

\* the storage call of thread t returns Err:
\*   request_job inside Handler<RequestJob>: `?` ends the handler with Err and
\*     the Box<dyn Worker> goes out of scope;
\*   request_job inside Handler<NewJob> and Handler<CheckDb>: the else branch
\*     of `if let Ok(Some(job))` parks the worker again;
\*   new_job and return_job: `?` / map_err end the handler with Err.
StorageError(t) ==
    /\ t <= nthreads
    /\ storage.backend = "sled"
    /\ Pc(t) # "idle"
    /\ ~InLockQueue(t)
    /\ errors < MaxErrors
    /\ errors' = errors + 1
    /\ IF InRequestJob(t)
       THEN /\ IF th[t].msg.type = "RequestJob"
               THEN th' = [th EXCEPT ![t] = ThreadIdle] /\ UNCHANGED <<cache, inbox>>
               ELSE RequestJobDone(t, None)
            /\ UNCHANGED new_job_err
       ELSE /\ th' = [th EXCEPT ![t] = ThreadIdle]
            /\ new_job_err' = IF th[t].msg.type = "NewJob" THEN new_job_err + 1
                              ELSE new_job_err
            /\ UNCHANGED <<cache, inbox>>
    /\ UNCHANGED <<storage, now, submitted, attempts, failures, clean, queue_ok,
                   config, spawned, executed, last_op, pureVars, nthreads, workers, started, mailbox, sent,
                   pings>>

ErrInit ==
    /\ storage = StorageNew("sled")
    /\ now = 0
    /\ HistInit
    /\ nthreads = 1
    /\ workers = start(1)
    /\ started = {}
    /\ mailbox = <<>>
    /\ th = [t \in Threads |-> ThreadIdle]
    /\ cache = [t \in Threads |-> [q \in Queues |-> <<>>]]
    /\ inbox = [w \in Runners |-> <<>>]
    /\ sent = 0
    /\ pings = 0

ErrNext ==
    \/ Environment
    \/ CommonStep(1)
    \/ SledStep(1)
    \/ StorageError(1)

ErrSpec == ErrInit /\ [][ErrNext]_vars

\* ------------------------------------------------------------------------
\* The states of a worker

Occurrences(seq, x) == Cardinality({i \in 1 .. Len(seq) : seq[i] = x})

\* RequestJob messages carrying the handle of w that are in the channel or
\* in the hands of a server thread (the handle popped from the cache by
\* Handler<NewJob> or Handler<CheckDb> counts as in hand)
Requesting(w) ==
    Occurrences(mailbox, RequestJob(w))
    + Cardinality({t \in Threads : th[t].worker = Some(w)})

RECURSIVE ParkedIn(_, _, _)
ParkedIn(w, ts, qs) ==
    IF ts = {} THEN 0
    ELSE LET t == CHOOSE x \in ts : TRUE
         IN  IF qs = {} THEN ParkedIn(w, ts \ {t}, Queues)
             ELSE LET q == CHOOSE x \in qs : TRUE
                  IN  Occurrences(cache[t][q], w)
                      + (IF qs = {q} THEN ParkedIn(w, ts \ {t}, Queues)
                         ELSE ParkedIn(w, ts, qs \ {q}))

Parked(w) == ParkedIn(w, Threads, Queues)

\* C15: every started worker is in exactly one of three states: a RequestJob
\* with its handle is on its way or in hand, its handle is parked once in
\* one server thread's cache, or one ProcessJob for it is outstanding.
C15_WorkerExclusive ==
    \A w \in started : Requesting(w) + Parked(w) + Len(inbox[w]) = 1

\* ------------------------------------------------------------------------
\* Properties under storage errors (ErrSpec)

\* C16: when storage.new_job fails in the handler of a NewJob message, the
\* QueueHandle::queue call that sent the message does not return Ok: the
\* calls that returned Ok and the handlers that failed are different calls.
C16_NewJobErrorReachesCaller == queue_ok + new_job_err <= sent

\* C17: when storage.request_job fails in the handler of RequestJob(worker),
\* the worker is registered again once the handler is over: its handle is
\* parked in the server's cache or a RequestJob for it is in the channel.
C17_WorkerReRegisters ==
    [][\A t \in Threads, w \in Runners :
          (StorageError(t) /\ th[t].msg.type = "RequestJob" /\ th[t].worker = Some(w))
              => (Parked(w) + Occurrences(mailbox, RequestJob(w)))' >= 1]_vars

\* ------------------------------------------------------------------------
\* Building and starting a WorkerConfig (jobs-actix/src/lib.rs).  Processors
\* are registered on the queues "a" and "b"; the BTreeMap is walked in key
\* order.

QueueOrder == <<"a", "b">>

\* WorkerConfig::register for a processor with QUEUE = queue
register(queues, queue) == [queues EXCEPT ![queue] = Some(DefaultWorkers)]

set_processor_count(queues, queue, count) == [queues EXCEPT ![queue] = Some(count)]

\* faulty variant: the workers of every queue are numbered from the offset
SpawnQueueFromOffset(acc, key, count) ==
    [i \in 1 .. count |-> [id |-> (i - 1) + RunnerOffset, queue |-> key]]

\* (0..count).for_each(|i| LocalWorker::new(acc + i + 1000, key, ..).start())
SpawnQueue(acc, key, count) ==
    [i \in 1 .. count |-> [id |-> acc + (i - 1) + RunnerOffset, queue |-> key]]

\* self.queues.into_iter().fold(0, ..) from the k-th key on
RECURSIVE StartFold(_, _, _)
StartFold(queues, k, acc) ==
    IF k > Len(QueueOrder) THEN <<>>
    ELSE LET key == QueueOrder[k]
         IN  IF IsSome(queues[key])
             THEN SpawnQueue(acc, key, Unwrap(queues[key]))
                  \o StartFold(queues, k + 1, acc + Unwrap(queues[key]))
             ELSE StartFold(queues, k + 1, acc)

\* WorkerConfig::start and start_in_arbiter: the workers created, in order
WorkerConfig_start(queues) == StartFold(queues, 1, 0)

ConfigInit ==
    /\ storage = StorageNew("memory")
    /\ now = 0
    /\ HistInit
    /\ ServerOff

Register(queue) ==
    /\ spawned = None
    /\ config' = register(config, queue)
    /\ UNCHANGED <<storage, now, submitted, attempts, failures, clean, queue_ok,
                   new_job_err, errors, spawned, executed, last_op, pureVars,
                   serverVars>>

SetProcessorCount(queue, count) ==
    /\ spawned = None
    /\ config' = set_processor_count(config, queue, count)
    /\ UNCHANGED <<storage, now, submitted, attempts, failures, clean, queue_ok,
                   new_job_err, errors, spawned, executed, last_op, pureVars,
                   serverVars>>

Start ==
    /\ spawned = None
    /\ spawned' = Some(WorkerConfig_start(config))
    /\ UNCHANGED <<storage, now, submitted, attempts, failures, clean, queue_ok,
                   new_job_err, errors, config, executed, last_op, pureVars,
                   serverVars>>

ConfigNext ==
    \/ \E queue \in Queues : Register(queue)
    \/ \E queue \in Queues, count \in 0 .. MaxCount : SetProcessorCount(queue, count)
    \/ Start

ConfigSpec == ConfigInit /\ [][ConfigNext]_vars

\* C18: register(processor) gives the processor's queue the count 4 only
\* when the queue has no count yet; a count the queue already has, set by
\* set_processor_count, is still there after the register.
C18_RegisterKeepsCount ==
    [][\A queue \in Queues :
          Register(queue) =>
              config'[queue] = IF IsSome(config[queue]) THEN config[queue]
                               ELSE Some(DefaultWorkers)]_vars

\* the count start sees for a queue: a queue without an entry gets no worker
CountOf(queue) == IF IsSome(config[queue]) THEN Unwrap(config[queue]) ELSE 0

TotalCount == CountOf("a") + CountOf("b")

\* C19: one call of start creates exactly count workers per queue, and the
\* runner-ids of all created workers are pairwise distinct, each one being
\* 1000 + k for a k in 0 .. total worker count - 1.
C19_StartDistinctIds ==
    IsSome(spawned) =>
        LET ws == Unwrap(spawned)
        IN  /\ \A queue \in Queues :
                  Cardinality({i \in DOMAIN ws : ws[i].queue = queue}) = CountOf(queue)
            /\ \A i, j \in DOMAIN ws : i # j => ws[i].id # ws[j].id
            /\ \A i \in DOMAIN ws :
                  ws[i].id \in RunnerOffset .. (RunnerOffset + TotalCount - 1)

\* start ran on a configuration with several workers on each of two queues
C19_Witness ==
    /\ IsSome(spawned)
    /\ CountOf("a") >= 2
    /\ CountOf("b") >= 2
    /\ Len(Unwrap(spawned)) = TotalCount

\* ------------------------------------------------------------------------
\* Draining two queues on the in-memory backend: one server thread, the
\* WorkerConfig {"a": 1, "b": 1}, immediate jobs whose processor is
\* registered and whose every run succeeds.  The workers and the server
\* thread keep making progress; the client submits what it likes.

UnscheduledJobs ==
    {NewJobInfo("P", queue, "args", Count(1), Linear(1), None) : queue \in Queues}

\* runner id -> queue for the workers start created
WorkerMap(ws) ==
    [w \in {ws[i].id : i \in DOMAIN ws} |->
        ws[CHOOSE i \in DOMAIN ws : ws[i].id = w].queue]

DrainInit ==
    /\ storage = StorageNew("memory")
    /\ now = 0
    /\ HistInit
    /\ nthreads = 1
    /\ workers = WorkerMap(WorkerConfig_start([queue \in Queues |-> Some(1)]))
    /\ started = {}
    /\ mailbox = <<>>
    /\ th = [t \in Threads |-> ThreadIdle]
    /\ cache = [t \in Threads |-> [q \in Queues |-> <<>>]]
    /\ inbox = [w \in Runners |-> <<>>]
    /\ sent = 0
    /\ pings = 0

SubmitUnscheduled == \E info \in UnscheduledJobs : QueueHandle_send(info)

\* Handler<ProcessJob> of a worker whose processor succeeds
Execute(w) ==
    /\ ProcessJobSend(w, "Success")
    /\ executed' = [executed EXCEPT ![Head(inbox[w]).job.id] = @ + 1]
    /\ UNCHANGED <<submitted, attempts, failures, clean, queue_ok, new_job_err, errors,
                   config, spawned, last_op, pureVars>>

\* the steps of the server thread when every job succeeds
DrainStep(t) ==
    \/ Receive(t)
    \/ NewJobGenerateId(t)
    \/ NewJobSave(t)
    \/ NewJobStats(t)
    \/ RequestJobSave(t)
    \/ RequestJobStats(t)
    \/ DeleteJobStats(t)
    \/ MemStep(t)

DrainNext ==
    \/ Clock
    \/ SubmitUnscheduled
    \/ PingerInterval
    \/ \E w \in Runners : WorkerStarted(w)
    \/ \E w \in Runners : Execute(w)
    \/ DrainStep(1)

DrainFairSpec ==
    /\ DrainInit
    /\ [][DrainNext]_vars
    /\ \A w \in Runners : WF_vars(WorkerStarted(w))
    /\ \A w \in Runners : WF_vars(Execute(w))
    /\ WF_vars(DrainStep(1))

\* every submitted job has run once and is gone, and the statistics say so
Drained ==
    /\ \A id \in Ids : ~Stored(id)
    /\ \A id \in Ids : executed[id] = IF id < sent THEN 1 ELSE 0
    /\ storage.stats.complete = sent
    /\ storage.stats.pending = 0
    /\ storage.stats.running = 0

\* C20: in-memory backend, one server thread, one worker on each of the
\* queues a and b, finitely many immediate jobs that always succeed: from
\* some point on storage holds no job record, every submitted job has been
\* executed exactly once, stats.complete.all_time is the number of
\* submitted jobs and stats.pending = stats.running = 0.
C20_QueuesDrain == <>[]Drained

\* all the jobs have been submitted and the system has drained, both
\* workers being parked again
C20_Witness ==
    /\ sent = MaxJobs
    /\ Drained
    /\ \A queue \in Queues : cache[1][queue] # <<>>
    /\ mailbox = <<>>

\* ------------------------------------------------------------------------
\* queue_job and delete_job as the derived operations call them (StoreSpec)

\* no tree binds id to a runner or a runner to id
Unbound(st, id) ==
    /\ st.worker_ids[id] = None
    /\ \A r \in Runners : st.worker_ids_inverse[r] # Some(id)

\* C22: queue_job(queue, id) on an id that has a runner binding leaves the
\* id in queue with no runner binding in either direction, on both
\* backends.  return_job calls it for a Failure that re-queues and for
\* MissingProcessor.
C22_QueueJobClearsBinding ==
    [][\A id \in Ids, result \in {"Failure", "MissingProcessor"} :
          (StoreReturnJob(id, result) /\ Bound(id) /\ IsSome(storage'.jobs[id])) =>
              /\ storage'.queues[id] = Some(Job(id).queue)
              /\ Unbound(storage', id)]_vars

\* the same on the sled backend alone
C22_SledClearsBinding ==
    [][\A id \in Ids, result \in {"Failure", "MissingProcessor"} :
          (StoreReturnJob(id, result) /\ Bound(id) /\ IsSome(storage'.jobs[id])
             /\ storage.backend = "sled") =>
              /\ storage'.queues[id] = Some(Job(id).queue)
              /\ Unbound(storage', id)]_vars

\* delete_job ran for id in this step of return_job
Deletes(id) ==
    /\ \E result \in Results : StoreReturnJob(id, result)
    /\ ~IsSome(storage'.jobs[id])

\* C23: delete_job(id) removes the record of id, its queue entry and its
\* runner binding in both directions, and leaves the record, the queue
\* entry and the runner binding of every other id as they were, on both
\* backends.
C23_DeleteJobFrame ==
    [][\A id \in Ids :
          Deletes(id) =>
              /\ storage'.queues[id] = None
              /\ Unbound(storage', id)
              /\ \A other \in Ids \ {id} :
                    /\ storage'.jobs[other] = storage.jobs[other]
                    /\ storage'.queues[other] = storage.queues[other]
                    /\ storage'.worker_ids[other] = storage.worker_ids[other]
                    /\ \A r \in Runners :
                          storage.worker_ids_inverse[r] = Some(other) =>
                              storage'.worker_ids_inverse[r] = Some(other)]_vars

\* ------------------------------------------------------------------------
\* C24: in-memory backend, one server thread, no handler mid-flight: the
\* maps worker_ids and worker_ids_inverse are mutual inverses, no runner-id
\* is the value of two job ids, and only jobs with status Running have an
\* entry.
C24_MemoryBindings ==
    (storage.backend = "memory" /\ nthreads = 1 /\ Quiescent)
    => /\ MutualInverse
       /\ \A id, other \in Ids :
             (Bound(id) /\ storage.worker_ids[id] = storage.worker_ids[other]) => id = other
       /\ \A id \in Ids : Bound(id) => (Stored(id) /\ Job(id).status = "Running")

\* ------------------------------------------------------------------------
\* The Stats operations on every Stats value (jobs-core/src/stats.rs)

StatsOps == {"new_job", "run_job", "retry_job", "fail_job", "complete_job"}

AllStats ==
    [pending : 0 .. UsizeMax, running : 0 .. UsizeMax,
     dead : 0 .. UsizeMax, complete : 0 .. UsizeMax]

StatsInit ==
    /\ storage \in {[StorageNew("memory") EXCEPT !.stats = s] : s \in AllStats}
    /\ now = 0
    /\ HistInit
    /\ ServerOff

\* update_stats(f) on the stored Stats value
StatsApply(f) ==
    /\ storage' = update_stats(storage, f)
    /\ last_op' = Some([op |-> f, before |-> storage.stats])
    /\ UNCHANGED <<now, submitted, attempts, failures, clean, queue_ok, new_job_err,
                   errors, config, spawned, executed, pureVars, serverVars>>

StatsNext == \E f \in StatsOps : StatsApply(f)

StatsSpec == StatsInit /\ [][StatsNext]_vars

\* the counter an operation decrements, and the one it increments
Decremented(f) == IF f = "run_job" THEN "pending" ELSE "running"
Incremented(f) ==
    CASE f = "run_job" -> "running"
      [] f = "retry_job" -> "pending"
      [] f = "fail_job" -> "dead"
      [] f = "complete_job" -> "complete"

Saturating == StatsOps \ {"new_job"}

\* C25 as stated: run_job on pending = 0 leaves pending = 0; retry_job,
\* fail_job and complete_job on running = 0 leave running = 0; in each case
\* the other counter of the operation is one higher afterwards, for every
\* Stats value.
C25_NoUnderflowAnyStats ==
    [][\A f \in Saturating :
          (StatsApply(f) /\ storage.stats[Decremented(f)] = 0) =>
              /\ storage'.stats[Decremented(f)] = 0
              /\ storage'.stats[Incremented(f)] = storage.stats[Incremented(f)] + 1]_vars

\* C25 for the Stats values whose incremented counter is below usize::MAX;
\* the decremented counter stays 0 for every Stats value.
C25_NoUnderflow ==
    [][\A f \in Saturating :
          (StatsApply(f) /\ storage.stats[Decremented(f)] = 0) =>
              /\ storage'.stats[Decremented(f)] = 0
              /\ storage.stats[Incremented(f)] < UsizeMax =>
                    storage'.stats[Incremented(f)] = storage.stats[Incremented(f)] + 1]_vars

\* fail_job was applied to a Stats value with running = 0 and counted the
\* failure
C25_Witness ==
    /\ IsSome(last_op)
    /\ Unwrap(last_op).op = "fail_job"
    /\ Unwrap(last_op).before.running = 0
    /\ storage.stats.running = 0
    /\ storage.stats.dead = Unwrap(last_op).before.dead + 1

\* ------------------------------------------------------------------------
\* a stored job that nothing will pick up: Pending, in no queue, bound to
\* no runner
Stranded(id) ==
    /\ Stored(id)
    /\ Job(id).status = "Pending"
    /\ ~Queued(id)
    /\ Unbound(storage, id)

\* C29: sled backend, two or more server threads: once the storage
\* operations in progress have finished, no job is left with a Pending
\* record, in no queue and bound to no runner, whatever another thread's
\* request_job did between the queue_job and save_job of return_job.
C29_ReturnedNeverStranded ==
    (storage.backend = "sled" /\ nthreads >= 2 /\ Quiescent)
    => \A id \in Ids : ~Stranded(id)

\* ------------------------------------------------------------------------
\* The queue lock of the sled backend: two server threads, and two workers
\* that are either both on queue "a" or one on "a" and one on "b".

LockInit ==
    /\ storage = StorageNew("sled")
    /\ now = 0
    /\ HistInit
    /\ nthreads = NThreads
    /\ workers \in {start(MaxWorkers),
                    WorkerMap(WorkerConfig_start([queue \in Queues |-> Some(1)]))}
    /\ started = {}
    /\ mailbox = <<>>
    /\ th = [t \in Threads |-> ThreadIdle]
    /\ cache = [t \in Threads |-> [q \in Queues |-> <<>>]]
    /\ inbox = [w \in Runners |-> <<>>]
    /\ sent = 0
    /\ pings = 0

LockNext ==
    \/ \E info \in UnscheduledJobs : QueueHandle_queue(info)
    \/ Ping
    \/ \E w \in Runners : WorkerStarted(w)
    \/ \E w \in Runners, result \in Results : ProcessJob(w, result)
    \/ \E t \in Threads : CommonStep(t) \/ SledStep(t)

LockSpec == LockInit /\ [][LockNext]_vars

\* C30: a thread inside the critical section of fetch_job_from_queue for a
\* queue holds lock[queue] with the id it installed, and no two threads are
\* inside the critical section for the same queue at the same time.
C30_LockQueueExclusion ==
    /\ \A t \in Threads : InLockQueue(t) => storage.lock[LocalQueue(t)] = Some(t)
    /\ \A t, u \in Threads :
          (t # u /\ InLockQueue(t) /\ InLockQueue(u)) => LocalQueue(t) # LocalQueue(u)

\* two threads are inside the critical section at once, for different queues
C30_Witness ==
    \E t, u \in Threads :
        /\ InLockQueue(t)
        /\ InLockQueue(u)
        /\ LocalQueue(t) = "a"
        /\ LocalQueue(u) = "b"

\* a thread waits for the lock of the queue while the other one holds it
C30_Contention ==
    \E t, u \in Threads :
        /\ InLockQueue(t)
        /\ Pc(u) = "request_job"
        /\ LocalQueue(u) = LocalQueue(t)

\* ------------------------------------------------------------------------
\* The handlers' use of the parked-worker cache: one server thread, either
\* backend, one or two workers of queue "a", storage calls of the sled
\* backend that may fail.

HandoffInit ==
    /\ ServerInit
    /\ nthreads = 1

HandoffNext ==
    \/ Environment
    \/ CommonStep(1)
    \/ MemStep(1)
    \/ SledStep(1)
    \/ StorageError(1)

HandoffSpec == HandoffInit /\ [][HandoffNext]_vars

ParkedSet(seq) == {seq[i] : i \in DOMAIN seq}
NoDuplicate(seq) == \A i, j \in DOMAIN seq : i # j => seq[i] # seq[j]

\* the handler of thread t ends on this step and has sent worker w one
\* ProcessJob with a job of queue q; w stays out of the cache
HandsJob(t, w, q) ==
    /\ Len(inbox'[w]) = Len(inbox[w]) + 1
    /\ SubSeq(inbox'[w], 1, Len(inbox[w])) = inbox[w]
    /\ inbox'[w][Len(inbox'[w])].job.queue = q
    /\ \A other \in Runners \ {w} : inbox'[other] = inbox[other]
    /\ cache'[t] = cache[t]
    /\ w \notin ParkedSet(cache[t][q])

\* the handler of thread t ends on this step and has parked w again
Reparks(t, w, q) ==
    /\ inbox' = inbox
    /\ ParkedSet(cache'[t][q]) = ParkedSet(cache[t][q]) \cup {w}
    /\ NoDuplicate(cache'[t][q])
    /\ \A other \in Queues \ {q} : cache'[t][other] = cache[t][other]

\* one step of Handler<NewJob> on thread t
C26_Step(t) ==
    LET info == th[t].msg.info
        q == info.queue
    IN  IF th[t].worker = None
        THEN \/ /\ new_is_ready(info)
                /\ cache[t][q] # <<>>
                /\ th'[t].worker = Some(Head(cache[t][q]))
                /\ cache'[t] = [cache[t] EXCEPT ![q] = Tail(@)]
                /\ inbox' = inbox
             \/ /\ th'[t].worker = None
                /\ cache'[t] = cache[t]
                /\ inbox' = inbox
        ELSE LET w == LocalWorker(t)
             IN  IF th'[t].pc # "idle"
                 THEN /\ th'[t].worker = Some(w)
                      /\ cache'[t] = cache[t]
                      /\ inbox' = inbox
                 ELSE HandsJob(t, w, q) \/ Reparks(t, w, q)

\* C26: Handler<NewJob> for a job without next_queue, with workers parked
\* for the job's queue on the thread: it takes one worker out of the cache
\* and ends either having sent that worker exactly one ProcessJob with a job
\* of the queue, the worker staying out of the cache, or, request_job having
\* returned None or an error, with the same set of workers parked as
\* before; no worker is lost or duplicated.  For a job with next_queue set
\* no worker is taken, the cache is unchanged and no ProcessJob is sent.
C26_NewJobHandoff ==
    [][\A t \in Threads :
          (Handling(t, "NewJob") /\ th'[t] # th[t]) => C26_Step(t)]_vars

\* Handler<NewJob> has taken the first of two parked workers and
\* request_job has a job for it
C26_Witness ==
    \E t \in Threads :
        /\ Handling(t, "NewJob")
        /\ IsSome(th[t].worker)
        /\ IsSome(th[t].job)
        /\ cache[t]["a"] # <<>>
        /\ Pc(t) = "request_job_stats"

\* ------------------------------------------------------------------------
\* position of a parked worker in a cache entry
Pos(seq, x) == CHOOSE i \in DOMAIN seq : seq[i] = x

\* one step seen from cache[t][q], kept in the order the workers' RequestJob
\* messages were parked: the workers that stay keep their order, a handler
\* takes the worker at the front, a RequestJob parks its worker behind all
\* others, and a worker that NewJob or CheckDb took from the front and puts
\* back is again in front of the workers that were parked after it.
C27_Step(t, q) ==
    LET old == cache[t][q]
        new == cache'[t][q]
        stay == ParkedSet(old) \cap ParkedSet(new)
    IN  /\ \A w, u \in stay : Pos(old, w) < Pos(old, u) => Pos(new, w) < Pos(new, u)
        /\ \A w \in ParkedSet(old) \ ParkedSet(new) : w = Head(old)
        /\ \A w \in ParkedSet(new) \ ParkedSet(old) :
              IF Handling(t, "RequestJob")
              THEN \A u \in ParkedSet(old) : Pos(new, u) < Pos(new, w)
              ELSE \A u \in ParkedSet(old) : Pos(new, w) < Pos(new, u)

\* C27: the parked-worker cache is a FIFO per queue and server thread: of
\* two workers of one queue parked on one thread, the one whose RequestJob
\* was parked earlier is ahead of the other whenever a job is handed out,
\* also after NewJob and CheckDb handlers whose request_job returned None
\* and parked the worker again.
C27_CacheFifo ==
    [][\A t \in Threads, q \in Queues : C27_Step(t, q)]_vars

\* ------------------------------------------------------------------------
\* Handler<CheckDb> on the sled backend with one server thread (no
\* concurrent storage change): two workers, both on queue "a" or one on "a"
\* and one on "b", scheduled jobs on either queue that every run completes,
\* the pinger firing again and again.  The clock moves between handlers.

ScheduledJobs ==
    {NewJobInfo("P", queue, "args", Count(0), Linear(1), Some(1)) : queue \in Queues}

CheckDbInit ==
    /\ storage = StorageNew("sled")
    /\ now = 0
    /\ HistInit
    /\ nthreads = 1
    /\ workers \in {start(MaxWorkers),
                    WorkerMap(WorkerConfig_start([queue \in Queues |-> Some(1)]))}
    /\ started = {}
    /\ mailbox = <<>>
    /\ th = [t \in Threads |-> ThreadIdle]
    /\ cache = [t \in Threads |-> [q \in Queues |-> <<>>]]
    /\ inbox = [w \in Runners |-> <<>>]
    /\ sent = 0
    /\ pings = 0

ClockBetweenHandlers ==
    /\ Quiescent
    /\ Clock

SubmitScheduledJob == \E info \in ScheduledJobs : QueueHandle_send(info)

\* the steps of a handler once the server thread has taken its message,
\* when every job succeeds, sled backend
HandlerStep(t) ==
    \/ NewJobGenerateId(t)
    \/ NewJobSave(t)
    \/ SledQueueJobInverseDel(t)
    \/ SledQueueJobSet(t)
    \/ NewJobStats(t)
    \/ SledLockQueue(t)
    \/ SledFetchScan(t)
    \/ SledFetchDel(t)
    \/ SledUnlockQueue(t)
    \/ SledRunJobQueueDel(t)
    \/ SledRunJobRunningSet(t)
    \/ SledRunJobInverseSet(t)
    \/ RequestJobSave(t)
    \/ RequestJobStats(t)
    \/ SledDeleteJobInfoDel(t)
    \/ SledDeleteJobQueueDel(t)
    \/ SledDeleteJobInverseDel(t)
    \/ SledDeleteJobRunningDel(t)
    \/ DeleteJobStats(t)

CheckDbStep(t) == Receive(t) \/ HandlerStep(t)

CheckDbNext ==
    \/ ClockBetweenHandlers
    \/ SubmitScheduledJob
    \/ PingerInterval
    \/ \E w \in Runners : WorkerStarted(w)
    \/ \E w \in Runners : ProcessJob(w, "Success")
    \/ CheckDbStep(1)

CheckDbFairSpec ==
    /\ CheckDbInit
    /\ [][CheckDbNext]_vars
    /\ WF_vars(CheckDbStep(1))

\* the worker the handler of thread t has taken out of the cache, if any
Taken(worker) == IF IsSome(worker) THEN {Unwrap(worker)} ELSE {}

\* the workers that get a ProcessJob on this step
Handed == {w \in Runners : Len(inbox'[w]) = Len(inbox[w]) + 1}

\* one step of Handler<CheckDb> on thread t
C28_Step(t) ==
    /\ \A w \in Handed :
          /\ th[t].worker = Some(w)
          /\ inbox'[w][Len(inbox'[w])].job.queue = LocalQueue(t)
    /\ \A q \in Queues :
          LET had == ParkedSet(cache[t][q])
                         \cup (IF th[t].queue = Some(q) THEN Taken(th[t].worker) ELSE {})
              has == ParkedSet(cache'[t][q])
                         \cup (IF th'[t].queue = Some(q) THEN Taken(th'[t].worker) ELSE {})
          IN  /\ NoDuplicate(cache'[t][q])
              /\ has = had \ Handed
              /\ (has = had /\ cache'[t][q] # cache[t][q] /\ Len(cache'[t][q]) > Len(cache[t][q]))
                    => th'[t].queue # Some(q)
    /\ th'[t].pc = "idle" =>
          \A q \in Queues : cache'[t][q] = <<>> \/ SledReady(storage', q, now') = {}

ImmediateJob == NewJobInfo("P", "a", "args", Count(0), Linear(1), None)

PingInit ==
    /\ storage = StorageNew("sled")
    /\ now = 0
    /\ HistInit
    /\ nthreads = NThreads
    /\ workers = start(1)
    /\ started = {}
    /\ mailbox = <<>>
    /\ th = [t \in Threads |-> ThreadIdle]
    /\ cache = [t \in Threads |-> [q \in Queues |-> <<>>]]
    /\ inbox = [w \in Runners |-> <<>>]
    /\ sent = 0
    /\ pings = 0

SubmitImmediate ==
    /\ sent = 0
    /\ QueueHandle_send(ImmediateJob)

PingNext ==
    \/ SubmitImmediate
    \/ PingerInterval
    \/ \E w \in Runners : WorkerStarted(w)
    \/ \E w \in Runners : ProcessJob(w, "Success")
    \/ \E t \in Threads : Receive(t)
    \/ \E t \in Threads : HandlerStep(t)

PingFairSpec ==
    /\ PingInit
    /\ [][PingNext]_vars
    /\ WF_vars(PingerInterval)
    /\ WF_vars(\E w \in Runners : WorkerStarted(w))
    /\ WF_vars(\E w \in Runners : ProcessJob(w, "Success"))
    /\ WF_vars(\E t \in Threads : Receive(t))
    /\ \A t \in Threads : WF_vars(HandlerStep(t))

\* a worker of queue q is parked on some thread while a ready job is
\* queued for q
ParkedWithReadyJob(q) ==
    /\ \E t \in Threads : cache[t][q] # <<>>
    /\ SledReady(storage, q, now) # {}

\* C21: two or more server threads, the pinger ticking for ever and every
\* message eventually handled by some thread: when a worker of queue q is
\* parked on some thread and a ready job is queued for q, eventually a
\* worker of q is handed a job.
C21_PingerRestoresFairness ==
    \A q \in Queues :
        ParkedWithReadyJob(q) ~> (\E w \in DOMAIN workers : workers[w] = q /\ inbox[w] # <<>>)

\* ------------------------------------------------------------------------
\* Errors inside SledStorage::lock_queue: two server threads, two workers of
\* queue "a", immediate jobs.  db.generate_id and the fetch_and_update of the
\* loop may fail before the lock is taken, queue_tree.del may fail inside the
\* closure, and the fetch_and_update that clears the lock may fail.  The
\* errors of the scan are dropped by `.ok()`.

\* request_job returned Err to the handler of thread t
RequestJobErr(t) ==
    IF th[t].msg.type = "RequestJob"
    THEN th' = [th EXCEPT ![t] = ThreadIdle] /\ UNCHANGED <<cache, inbox>>
    ELSE RequestJobDone(t, None)

\* what every failing storage call of lock_queue leaves alone
LockErrFrame ==
    /\ errors < MaxErrors
    /\ errors' = errors + 1
    /\ UNCHANGED <<now, submitted, attempts, failures, clean, queue_ok, new_job_err,
                   config, spawned, executed, last_op, pureVars, nthreads, workers, started,
                   mailbox, sent, pings>>

\* `self.db.generate_id()?` or `self.lock.fetch_and_update(..)?` of the loop
\* fails: lock_queue returns Err, the lock is not taken
SledLockQueueErr(t) ==
    /\ Pc(t) = "request_job"
    /\ storage.backend = "sled"
    /\ storage' = storage
    /\ RequestJobErr(t)
    /\ LockErrFrame

\* `queue_tree.del(..)?` fails: the closure returns Err, lock_queue keeps it
\* in `res` and goes on to clear the lock
SledFetchDelErr(t) ==
    /\ Pc(t) = "fetch_del"
    /\ storage' = storage
    /\ th' = [th EXCEPT ![t].job = None, ![t].pc = "fetch_unlock_err"]
    /\ UNCHANGED <<cache, inbox>>
    /\ LockErrFrame

\* the lock is cleared and lock_queue returns the Err of the closure
SledUnlockQueueAfterErr(t) ==
    /\ Pc(t) = "fetch_unlock_err"
    /\ storage' = [storage EXCEPT !.lock[LocalQueue(t)] = None]
    /\ RequestJobErr(t)
    /\ UNCHANGED <<now, histVars, nthreads, workers, started, mailbox, sent, pings>>

\* `self.lock.fetch_and_update(queue, |_| None)?` fails: lock_queue returns
\* this Err, the lock keeps its value
SledUnlockQueueErr(t) ==
    /\ Pc(t) \in {"fetch_unlock", "fetch_unlock_err"}
    /\ storage' = storage
    /\ RequestJobErr(t)
    /\ LockErrFrame

LockErrStep(t) ==
    \/ SledLockQueueErr(t)
    \/ SledFetchDelErr(t)
    \/ SledUnlockQueueAfterErr(t)
    \/ SledUnlockQueueErr(t)

LockFairInit ==
    /\ storage = StorageNew("sled")
    /\ now = 0
    /\ HistInit
    /\ nthreads = NThreads
    /\ workers = start(MaxWorkers)
    /\ started = {}
    /\ mailbox = <<>>
    /\ th = [t \in Threads |-> ThreadIdle]
    /\ cache = [t \in Threads |-> [q \in Queues |-> <<>>]]
    /\ inbox = [w \in Runners |-> <<>>]
    /\ sent = 0
    /\ pings = 0

LockFairNext ==
    \/ \E info \in UnscheduledJobs : QueueHandle_queue(info)
    \/ \E w \in Runners : WorkerStarted(w)
    \/ \E w \in Runners : ProcessJob(w, "Success")
    \/ \E t \in Threads : Receive(t)
    \/ \E t \in Threads : HandlerStep(t)
    \/ \E t \in Threads : LockErrStep(t)

\* every thread keeps running its handler; a thread in the loop of lock_queue
\* keeps trying, so it takes the lock if the lock is free again and again
LockFairSpec ==
    /\ LockFairInit
    /\ [][LockFairNext]_vars
    /\ \A t \in Threads : WF_vars(HandlerStep(t) \/ SledUnlockQueueAfterErr(t))
    /\ \A t \in Threads : SF_vars(SledLockQueue(t))

\* thread t is in the loop of lock_queue
Spinning(t) == Pc(t) = "request_job" /\ storage.backend = "sled"

\* lock_queue returns on this step
LockQueueReturns(t) == InLockQueue(t) /\ ~(InLockQueue(t))'

LockHeldOnlyInside ==
    \A q \in Queues :
        IsSome(storage.lock[q]) => \E t \in Threads : InLockQueue(t) /\ LocalQueue(t) = q

\* C31: lock_queue always releases the lock: when it returns after the
\* closure returned, with Ok or with Err, lock[queue] is clear; the lock is
\* held only while some thread is inside the critical section; and every
\* thread spinning on the lock eventually gets past the loop, the holders'
\* steps being taken.
C31_LockAlwaysReleased ==
    /\ [][\A t \in Threads :
             LockQueueReturns(t) => storage'.lock[LocalQueue(t)] = None]_vars
    /\ []LockHeldOnlyInside
    /\ \A t \in Threads : Spinning(t) ~> ~Spinning(t)

\* ------------------------------------------------------------------------
\* Further properties under storage errors (ErrSpec)

\* request_job has a candidate from fetch_job_from_queue and is at run_job,
\* save_job or update_stats
HasCandidate(t) ==
    Pc(t) \in {"run_job", "run_job_running_set", "run_job_inverse_set",
               "request_job_save", "request_job_stats"}

\* the job can be handed out again: stored as Pending, in its queue, bound
\* to no runner
Dispatchable(st, id, queue) ==
    /\ IsSome(st.jobs[id])
    /\ Unwrap(st.jobs[id]).status = "Pending"
    /\ st.queues[id] = Some(queue)
    /\ Unbound(st, id)

\* C32: when run_job, save_job or update_stats fails inside request_job,
\* after fetch_job_from_queue has returned a candidate, the candidate is not
\* lost: once request_job has returned Err the job is in its queue with
\* status Pending and no runner binding.
C32_CandidateNotLost ==
    [][\A t \in Threads :
          (StorageError(t) /\ HasCandidate(t)) =>
              Dispatchable(storage', LocalJob(t).id, LocalJob(t).queue)]_vars

\* ------------------------------------------------------------------------
\* Stats against the storage (Spec)

\* the counters of Stats say what the storage holds; a deleted job is an id
\* generate_id has given out whose record is gone
StatsMatch ==
    /\ storage.stats.pending = Cardinality({id \in Ids : Queued(id)})
    /\ storage.stats.running = Cardinality({id \in Ids : Bound(id)})
    /\ storage.stats.complete + storage.stats.dead
          = storage.count - Cardinality({id \in Ids : Stored(id)})

\* C33: one server thread, no storage errors, every return_job issued for a
\* job that is Running: after every handled message stats.pending is the
\* number of job ids in a queue, stats.running the number of jobs bound to a
\* runner, and complete.all_time + dead.all_time the number of deleted
\* jobs, on the sled backend and on the in-memory backend.
C33_StatsConsistent == (nthreads = 1 /\ Quiescent) => StatsMatch

\* the same on the sled backend alone
C33_SledStatsConsistent ==
    (storage.backend = "sled" /\ nthreads = 1 /\ Quiescent) => StatsMatch

\* ------------------------------------------------------------------------
\* A worker without the processor of the job: one worker of queue "a" whose
\* ProcessorMap has no entry for the job's processor, one immediate job, one
\* server thread, either backend, the pinger.

MissingInit ==
    /\ ServerInit
    /\ nthreads = 1
    /\ workers = start(1)

\* Handler<ProcessJob> of a worker whose ProcessorMap lacks the processor
ProcessJobMissing(w) ==
    /\ inbox[w] # <<>>
    /\ executed[Head(inbox[w]).job.id] < MaxRuns
    /\ ProcessJobSend(w, "MissingProcessor")
    /\ executed' = [executed EXCEPT ![Head(inbox[w]).job.id] = @ + 1]
    /\ UNCHANGED <<submitted, attempts, failures, clean, queue_ok, new_job_err, errors,
                   config, spawned, last_op, pureVars>>

\* the steps of a server thread when every job comes back MissingProcessor
RequeueStep(t) ==
    \/ Receive(t)
    \/ NewJobGenerateId(t)
    \/ NewJobSave(t)
    \/ NewJobStats(t)
    \/ RequestJobSave(t)
    \/ RequestJobStats(t)
    \/ ReturnJobFetch(t)
    \/ ReturnJobSave(t)
    \/ ReturnJobStats(t)
    \/ MemQueueJob(t)
    \/ MemFetchJobFromQueue(t)
    \/ MemRunJob(t)
    \/ SledQueueJobInverseDel(t)
    \/ SledQueueJobRunningDel(t)
    \/ SledQueueJobSet(t)
    \/ SledLockQueue(t)
    \/ SledFetchScan(t)
    \/ SledFetchDel(t)
    \/ SledUnlockQueue(t)
    \/ SledRunJobQueueDel(t)
    \/ SledRunJobRunningSet(t)
    \/ SledRunJobInverseSet(t)

MissingNext ==
    \/ SubmitImmediate
    \/ Ping
    \/ \E w \in Runners : WorkerStarted(w)
    \/ \E w \in Runners : ProcessJobMissing(w)
    \/ RequeueStep(1)

MissingSpec == MissingInit /\ [][MissingNext]_vars

\* the ProcessJob messages worker w has been sent for job id: the runs it
\* has made and the messages it has not answered yet
HandedTo(w, id) ==
    executed[id] + Cardinality({i \in 1 .. Len(inbox[w]) : inbox[w][i].job.id = id})

\* everything sent has been handled
Settled == Quiescent /\ mailbox = <<>> /\ \A w \in Runners : inbox[w] = <<>>

\* C34: a job that its worker returns with MissingProcessor is not handed
\* out again in a busy loop: with one NewJob, the job is handed to the
\* worker at most once before the first pinger tick and at most once more
\* per tick, and once the worker's ReturningJob and RequestJob are handled
\* the worker is parked.
C34_NoBusyLoop ==
    /\ \A w \in DOMAIN workers, id \in Ids : HandedTo(w, id) <= 1 + pings
    /\ (Settled /\ \E id \in Ids : executed[id] >= 1) =>
          \A w \in started : Parked(w) = 1

\* ------------------------------------------------------------------------
\* Handler<ReturningJob> (Spec)

\* thread t takes a ReturningJob or makes a step of its handler
ReturningJobStep(t) ==
    /\ th'[t] # th[t]
    /\ th[t].msg.type = "ReturningJob" \/ th'[t].msg.type = "ReturningJob"

\* C35: handling ReturningJob changes only the storage: on every step of
\* the handler the parked-worker cache of every server thread is unchanged,
\* no ProcessJob is sent and no message is sent to the server, also when the
\* returned job is queued again and ready while workers of its queue are
\* parked.
C35_ReturningJobFrame ==
    [][\A t \in Threads :
          ReturningJobStep(t) =>
              /\ cache' = cache
              /\ inbox' = inbox
              /\ Handling(t, "ReturningJob") => mailbox' = mailbox]_vars

\* the handler has queued the returned job again, the job is ready and a
\* worker of its queue is parked
C35_Witness ==
    \E t \in Threads :
        /\ Handling(t, "ReturningJob")
        /\ Pc(t) = "return_job_stats"
        /\ Queued(th[t].msg.id)
        /\ Stored(th[t].msg.id)
        /\ is_ready(Job(th[t].msg.id), now)
        /\ \E u \in Threads : cache[u][Job(th[t].msg.id).queue] # <<>>

\* ------------------------------------------------------------------------
\* Two queues: one worker on queue "a" and one on queue "b", immediate jobs
\* on either queue, one or two server threads, either backend, every
\* outcome of a job.

IsolationInit ==
    /\ storage \in {StorageNew(b) : b \in Backends}
    /\ now = 0
    /\ HistInit
    /\ nthreads \in Threads
    /\ workers = WorkerMap(WorkerConfig_start([queue \in Queues |-> Some(1)]))
    /\ started = {}
    /\ mailbox = <<>>
    /\ th = [t \in Threads |-> ThreadIdle]
    /\ cache = [t \in Threads |-> [q \in Queues |-> <<>>]]
    /\ inbox = [w \in Runners |-> <<>>]
    /\ sent = 0
    /\ pings = 0

IsolationNext ==
    \/ SubmitUnscheduled
    \/ Ping
    \/ \E w \in Runners : WorkerStarted(w)
    \/ \E w \in Runners, result \in Results : ProcessJob(w, result)
    \/ \E t \in Threads : CommonStep(t) \/ MemStep(t) \/ SledStep(t)

IsolationSpec == IsolationInit /\ [][IsolationNext]_vars

\* C36: queue isolation: every job a worker has been sent has job.queue
\* equal to the worker's queue, and the runner id bound in storage to that
\* job is the worker's id, for any interleaving of the messages and one or
\* more server threads.
C36_QueueIsolation ==
    \A w \in DOMAIN workers : \A i \in 1 .. Len(inbox[w]) :
        /\ inbox[w][i].job.queue = workers[w]
        /\ storage.worker_ids[inbox[w][i].job.id] = Some(w)

\* two server threads: the worker of queue a holds a job of queue a while
\* the worker of queue b holds a job of queue b
C36_Witness ==
    /\ nthreads = 2
    /\ \E w, u \in DOMAIN workers :
          /\ workers[w] = "a" /\ inbox[w] # <<>> /\ inbox[w][1].job.queue = "a"
          /\ workers[u] = "b" /\ inbox[u] # <<>> /\ inbox[u][1].job.queue = "b"

\* the other direction, which C36 does not state: the job recorded under the
\* worker's runner id is the job the worker holds.  With two server threads
\* the delete_job of the job the worker held before removes the entry.
C36_RunnerToJob ==
    \A w \in DOMAIN workers : \A i \in 1 .. Len(inbox[w]) :
        storage.worker_ids_inverse[w] = Some(inbox[w][i].job.id)

\* ------------------------------------------------------------------------
\* ProcessorMap: handlers are registered and jobs are processed, in any
\* order

\* the jobs a worker is sent
JobInputs ==
    {with_id(NewJobInfo(name, "a", args, Count(0), Linear(1), None), id) :
        name \in ProcessorNames, args \in JobArgs, id \in Ids}

ProcessorInit ==
    /\ storage = StorageNew("memory")
    /\ now = 0
    /\ HistInit
    /\ ServerOff

RegisterProcessor(name, h) ==
    /\ processors' = register_processor(processors, name, h)
    /\ last_op' = Some([op |-> "register_processor", before |-> processors[name],
                        out |-> name])
    /\ UNCHANGED <<storage, now, submitted, attempts, failures, clean, queue_ok,
                   new_job_err, errors, config, spawned, executed, jobstat, serverVars>>

\* process_job(job): `out` is the item the returned future yields
ProcessJobCall(job) ==
    /\ last_op' = Some([op |-> "process_job", before |-> job,
                        out |-> process_job(processors, job)])
    /\ UNCHANGED <<storage, now, submitted, attempts, failures, clean, queue_ok,
                   new_job_err, errors, config, spawned, executed, pureVars, serverVars>>

ProcessorNext ==
    \/ \E name \in ProcessorNames, h \in Handlers : RegisterProcessor(name, h)
    \/ \E job \in JobInputs : ProcessJobCall(job)

ProcessorSpec == ProcessorInit /\ [][ProcessorNext]_vars

\* the outcome the claim gives process_job(job) for the handler registered
\* under job.processor
ExpectedOutcome(reg, job, result) ==
    /\ result = "MissingProcessor" <=> ~IsSome(reg)
    /\ result = "Failure" <=>
          (IsSome(reg) /\ (job.args \notin Unwrap(reg).decodes
                           \/ job.args \notin Unwrap(reg).succeeds))
    /\ result = "Success" <=>
          (IsSome(reg) /\ job.args \in Unwrap(reg).decodes
                       /\ job.args \in Unwrap(reg).succeeds)

\* C37: process_job(job) yields one ReturnJobInfo carrying job.id whose
\* outcome is MissingProcessor iff no handler is registered under
\* job.processor, Failure iff a handler is registered and decoding the args
\* fails or the job returns an error, Success iff a handler is registered and
\* the job returns Ok; registering a handler under a name that has one
\* replaces it and leaves the other names alone.
C37_ProcessJobOutcome ==
    [][/\ \A job \in JobInputs :
             ProcessJobCall(job) =>
                 /\ Unwrap(last_op').out.id = job.id
                 /\ ExpectedOutcome(processors[job.processor], job,
                                    Unwrap(last_op').out.result)
       /\ \A name \in ProcessorNames, h \in Handlers :
             RegisterProcessor(name, h) =>
                 /\ processors'[name] = Some(h)
                 /\ \A other \in ProcessorNames \ {name} :
                       processors'[other] = processors[other]]_vars

\* a job whose handler is registered and decodes its args has returned an
\* error, while another processor name has no handler
C37_Witness ==
    /\ IsSome(last_op)
    /\ Unwrap(last_op).op = "process_job"
    /\ Unwrap(last_op).out.result = "Failure"
    /\ LET job == Unwrap(last_op).before
       IN  /\ IsSome(processors[job.processor])
           /\ job.args \in Unwrap(processors[job.processor]).decodes
           /\ Unwrap(last_op).out.id = job.id
    /\ \E name \in ProcessorNames : processors[name] = None

\* ------------------------------------------------------------------------
\* One JobStat counter, created at hour 0 and incremented at wall-clock
\* times that never go back

JobStatInit ==
    /\ storage = StorageNew("memory")
    /\ now = 0
    /\ HistInit
    /\ ServerOff

\* JobStat::increment with Utc::now() = t
JobStatIncrement(t) ==
    /\ t >= jobstat.updated_at
    /\ jobstat.all_time < MaxIncrements
    /\ jobstat' = JobStat_increment(jobstat, t)
    /\ last_op' = Some([op |-> "increment", before |-> jobstat, out |-> t])
    /\ UNCHANGED <<storage, now, submitted, attempts, failures, clean, queue_ok,
                   new_job_err, errors, config, spawned, executed, processors,
                   serverVars>>

JobStatNext == \E t \in WallClock : JobStatIncrement(t)

JobStatSpec == JobStatInit /\ [][JobStatNext]_vars

\* the day and the month of the calendar a wall-clock time falls in
CalendarDay(t) == t \div HoursPerDay
CalendarMonth(t) == t \div (HoursPerDay * DaysPerMonth)

Windows ==
    /\ jobstat.this_hour <= jobstat.today
    /\ jobstat.today <= jobstat.this_month
    /\ jobstat.this_month <= jobstat.all_time

\* an increment at time t: the windows the clock has left since the last
\* update start again at 0, then every counter goes up by one
WindowStep(t) ==
    /\ jobstat'.all_time = jobstat.all_time + 1
    /\ jobstat'.this_hour =
          (IF t # jobstat.updated_at THEN 0 ELSE jobstat.this_hour) + 1
    /\ jobstat'.today =
          (IF CalendarDay(t) # CalendarDay(jobstat.updated_at) THEN 0
           ELSE jobstat.today) + 1
    /\ jobstat'.this_month =
          (IF CalendarMonth(t) # CalendarMonth(jobstat.updated_at) THEN 0
           ELSE jobstat.this_month) + 1

\* C38: for a JobStat counter incremented at non-decreasing wall-clock
\* times: this_hour <= today <= this_month <= all_time; all_time is never
\* reset and grows by exactly one per increment; an increment that falls in
\* a different hour, day or month than the previous update first resets
\* exactly the windows that were crossed.
C38_JobStatWindows ==
    /\ []Windows
    /\ [][\A t \in WallClock : JobStatIncrement(t) => WindowStep(t)]_vars

\* the ordering of the windows and the growth of all_time alone
C38_WindowsOrdered ==
    /\ []Windows
    /\ [][\A t \in WallClock :
             JobStatIncrement(t) => jobstat'.all_time = jobstat.all_time + 1]_vars

====
